---------------------------- MODULE Spec2Model ----------------------------
(***************************************************************************)
(* A model of js8-recorder: the JS8Call API client (js8_client.py), the    *)
(* SQLite store (database.py) and the queue consumer of the application    *)
(* (js8_recorder.py).                                                      *)
(*                                                                         *)
(* Python strings are sequences of one-character strings, so that upper(), *)
(* strip(), split() and int() are computed character by character.  A JSON *)
(* value is a record [t |-> type tag, v |-> payload].                      *)
(***************************************************************************)
EXTENDS Integers, Sequences, FiniteSets, TLC

(***************************************************************************)
(* Python string operations                                                *)
(***************************************************************************)
LowerLetters == <<"a","b","c","d","e","f","g","h","i","j","k","l","m",
                  "n","o","p","q","r","s","t","u","v","w","x","y","z">>

UpperLetters == <<"A","B","C","D","E","F","G","H","I","J","K","L","M",
                  "N","O","P","Q","R","S","T","U","V","W","X","Y","Z">>

Digits == <<"0","1","2","3","4","5","6","7","8","9">>

Whitespace == {" ", "\t", "\n", "\r"}

Range(s) == {s[i] : i \in DOMAIN s}

\* str.upper() of one character
UpperChar(c) ==
  IF \E i \in DOMAIN LowerLetters : LowerLetters[i] = c
  THEN UpperLetters[CHOOSE i \in DOMAIN LowerLetters : LowerLetters[i] = c]
  ELSE c

\* str.upper()
Upper(s) == [i \in DOMAIN s |-> UpperChar(s[i])]

RECURSIVE LStrip(_)
LStrip(s) ==
  IF s # <<>> /\ Head(s) \in Whitespace THEN LStrip(Tail(s)) ELSE s

RECURSIVE RStrip(_)
RStrip(s) ==
  IF s # <<>> /\ s[Len(s)] \in Whitespace
  THEN RStrip(SubSeq(s, 1, Len(s) - 1)) ELSE s

\* str.strip()
Strip(s) == RStrip(LStrip(s))

\* s.startswith(p)
StartsWith(s, p) == Len(p) <= Len(s) /\ SubSeq(s, 1, Len(p)) = p

\* the first index at which p occurs in s, 0 when it does not ("p in s")
Find(s, p) ==
  LET hits == {i \in 1..(Len(s) - Len(p) + 1) : SubSeq(s, i, i + Len(p) - 1) = p}
  IN IF hits = {} THEN 0 ELSE CHOOSE i \in hits : \A j \in hits : i <= j

\* s.split(sep): the list of the parts between the occurrences of sep
RECURSIVE Split(_, _)
Split(s, sep) ==
  LET i == Find(s, sep)
  IN IF i = 0 THEN <<s>>
     ELSE <<SubSeq(s, 1, i - 1)>> \o Split(SubSeq(s, i + Len(sep), Len(s)), sep)

\* s.split(): the whitespace-delimited tokens of s
RECURSIVE SplitWs(_)
SplitWs(s) ==
  LET t == LStrip(s)
      stops == {i \in DOMAIN t : t[i] \in Whitespace}
      e == IF stops = {} THEN Len(t) + 1 ELSE CHOOSE i \in stops : \A j \in stops : i <= j
  IN IF t = <<>> THEN <<>>
     ELSE <<SubSeq(t, 1, e - 1)>> \o SplitWs(SubSeq(t, e, Len(t)))

\* s.replace(c, "") for a one-character c
RECURSIVE Remove(_, _)
Remove(s, c) ==
  IF s = <<>> THEN <<>>
  ELSE IF Head(s) = c THEN Remove(Tail(s), c)
  ELSE <<Head(s)>> \o Remove(Tail(s), c)

IsDigit(c) == \E i \in DOMAIN Digits : Digits[i] = c

DigitValue(c) == (CHOOSE i \in DOMAIN Digits : Digits[i] = c) - 1

RECURSIVE DigitsValue(_)
DigitsValue(ds) ==
  IF ds = <<>> THEN 0
  ELSE 10 * DigitsValue(SubSeq(ds, 1, Len(ds) - 1)) + DigitValue(ds[Len(ds)])

\* the body of an integer literal: digits, single underscores between them
IsIntBody(b) ==
  /\ b # <<>>
  /\ \A i \in DOMAIN b : IsDigit(b[i]) \/ b[i] = "_"
  /\ IsDigit(b[1]) /\ IsDigit(b[Len(b)])
  /\ \A i \in 1..(Len(b) - 1) : ~(b[i] = "_" /\ b[i + 1] = "_")

\* int(s) for a string s: [ok |-> FALSE] stands for ValueError
PyInt(s) ==
  LET t == Strip(s)
      signed == t # <<>> /\ t[1] \in {"+", "-"}
      body == IF signed THEN Tail(t) ELSE t
      mag == DigitsValue(Remove(body, "_"))
  IN IF IsIntBody(body)
     THEN [ok |-> TRUE, n |-> IF signed /\ t[1] = "-" THEN 0 - mag ELSE mag]
     ELSE [ok |-> FALSE, n |-> 0]

RECURSIVE NatToStr(_)
NatToStr(n) ==
  IF n < 10 THEN <<Digits[n + 1]>>
  ELSE NatToStr(n \div 10) \o <<Digits[(n % 10) + 1]>>

\* str(n) for an integer n
IntToStr(n) == IF n < 0 THEN <<"-">> \o NatToStr(0 - n) ELSE NatToStr(n)

(***************************************************************************)
(* JSON values as json.loads returns them                                  *)
(***************************************************************************)
JStr(s) == [t |-> "str", v |-> s]
JNum(n) == [t |-> "num", v |-> n]
JNull == [t |-> "null", v |-> 0]
JArr(a) == [t |-> "arr", v |-> a]

EmptyDict == <<>>

\* Python truth value of a JSON value
Truthy(j) ==
  CASE j.t = "null" -> FALSE
    [] j.t = "num" -> j.v # 0
    [] j.t = "str" -> j.v # <<>>
    [] j.t = "arr" -> j.v # <<>>
    [] j.t = "obj" -> DOMAIN j.v # {}

\* dict.get(key, default)
Get(d, key, default) == IF key \in DOMAIN d THEN d[key] ELSE default

\* str(value) of a JSON value read as a signal report
PyStr(j) ==
  CASE j.t = "str" -> j.v
    [] j.t = "num" -> IntToStr(j.v)
    [] OTHER -> <<"N","o","n","e">>

\* a JSON object from its members in text order: v the dict, k its key order
JObj(pairs) ==
  LET keys == {pairs[i][1] : i \in DOMAIN pairs}
      last(key) == CHOOSE i \in DOMAIN pairs :
                     /\ pairs[i][1] = key
                     /\ \A j \in DOMAIN pairs : pairs[j][1] = key => j <= i
      first(key) == CHOOSE i \in DOMAIN pairs :
                     /\ pairs[i][1] = key
                     /\ \A j \in DOMAIN pairs : pairs[j][1] = key => i <= j
      firsts == {first(key) : key \in keys}
      nth(n) == CHOOSE i \in firsts : Cardinality({j \in firsts : j < i}) = n - 1
  IN [t |-> "obj",
      v |-> [key \in keys |-> pairs[last(key)][2]],
      k |-> [n \in 1..Cardinality(keys) |-> pairs[nth(n)][1]]]

K_type == <<"t","y","p","e">>
K_params == <<"p","a","r","a","m","s">>
K_value == <<"v","a","l","u","e">>
K_TO == <<"T","O">>
K_FROM == <<"F","R","O","M">>
K_GRID == <<"G","R","I","D">>
K_SNR == <<"S","N","R">>
K_UTC == <<"U","T","C">>
K_BAND == <<"B","A","N","D">>
RX_DIRECTED == <<"R","X",".","D","I","R","E","C","T","E","D">>
RX_CALL_ACTIVITY == <<"R","X",".","C","A","L","L","_","A","C","T","I","V","I","T","Y">>
RX_GET_CALL_ACTIVITY == <<"R","X",".","G","E","T","_","C","A","L","L","_","A","C","T","I","V","I","T","Y">>

(***************************************************************************)
(* js8_client.py: the pure part of the listener                            *)
(***************************************************************************)
\* _parse_snr(value): the report as the string of an integer, "" when absent
_parse_snr(value) ==
  IF value.t = "null" \/ (value.t = "str" /\ value.v = <<>>) THEN <<>>
  ELSE LET r == PyInt(Remove(PyStr(value), "+"))
       IN IF r.ok THEN IntToStr(r.n) ELSE <<>>

\* lines 124-129: their reading of the operator's signal, from the text
TheirSnrOfMe(value) ==
  IF Find(Upper(value), K_SNR) # 0
  THEN LET parts == Split(Upper(value), K_SNR)
       IN IF Len(parts) > 1
          THEN LET snr_part == IF Strip(parts[2]) # <<>>
                               THEN SplitWs(Strip(parts[2]))[1] ELSE <<>>
               IN _parse_snr(JStr(snr_part))
          ELSE <<>>
  ELSE <<>>

NoEvents(exc) == [exc |-> exc, events |-> <<>>]

MessageEvent(record) == [type |-> "message", data |-> record]
GridEvent(callsign, grid) == [type |-> "grid", data |-> <<callsign, grid>>]
StatusEvent(text) == [type |-> "status", data |-> text]
ErrorEvent(text) == [type |-> "error", data |-> text]

\* a filter that lets every notification through
FilterNothing(to_call, my_callsign) == FALSE

\* _process_directed, line 108: the notification is for another station
NotDirectedAtMe(to_call, my_callsign) ==
  my_callsign # <<>> /\ to_call # my_callsign

\* _process_directed(msg) of a client configured with my_callsign, at time
\* now: the exception it raises ("none" when it returns) and the callbacks
\* it makes, in order.  FROM is read as a string when present.
_process_directed(msg, my_callsign, now) ==
  LET params == Get(msg, K_params, JObj(<<>>))
      value == Get(msg, K_value, JStr(<<>>))
  IN
  IF params.t # "obj" THEN NoEvents("AttributeError")
  ELSE LET to == Get(params.v, K_TO, JStr(<<>>)) IN
  IF to.t # "str" THEN NoEvents("AttributeError")
  ELSE IF NotDirectedAtMe(Upper(to.v), my_callsign) THEN NoEvents("none")
  ELSE LET callsign == Get(params.v, K_FROM, JStr(<<>>)).v
           gridv == Get(params.v, K_GRID, JStr(<<>>))
           utc == Get(params.v, K_UTC, JStr(<<>>))
       IN
  IF gridv.t # "str" THEN NoEvents("AttributeError")
  ELSE IF Truthy(utc) /\ utc.t # "num" THEN NoEvents("TypeError")
  ELSE IF value.t # "str" THEN NoEvents("AttributeError")
  ELSE LET grid == Strip(gridv.v)
           record == [callsign |-> callsign,
                      timestamp |-> IF Truthy(utc) THEN utc.v \div 1000 ELSE now,
                      my_snr_of_them |-> _parse_snr(Get(params.v, K_SNR, JStr(<<>>))),
                      their_snr_of_me |-> TheirSnrOfMe(value.v),
                      message |-> value.v,
                      grid |-> grid]
       IN [exc |-> "none",
           events |-> <<MessageEvent(record)>> \o
                      (IF callsign # <<>> /\ grid # <<>>
                       THEN <<GridEvent(callsign, grid)>> ELSE <<>>)]

(***************************************************************************)
(* database.py: the functions of the module                                *)
(***************************************************************************)
\* f"{num:+03d}": the sign, then the digits padded with zeros to two
Format03d(num) ==
  LET d == NatToStr(IF num < 0 THEN 0 - num ELSE num)
  IN <<IF num < 0 THEN "-" ELSE "+">> \o (IF Len(d) < 2 THEN <<"0">> \o d ELSE d)

\* a format_snr that writes the integer as str() does, unsigned and unpadded
format_snr_plain(value) ==
  IF value.t = "null" \/ (value.t = "str" /\ value.v = <<>>) THEN <<>>
  ELSE LET r == PyInt(Remove(PyStr(value), "+"))
       IN IF r.ok THEN IntToStr(r.n) ELSE PyStr(value)

\* format_snr(value), lines 16-24: "" for None and "", the value itself
\* when int() raises ValueError
format_snr(value) ==
  IF value.t = "null" \/ (value.t = "str" /\ value.v = <<>>) THEN <<>>
  ELSE LET r == PyInt(Remove(PyStr(value), "+"))
       IN IF r.ok THEN Format03d(r.n) ELSE PyStr(value)

\* ord(c) and chr(n) for the characters the grids are drawn from
ord(c) ==
  IF \E i \in DOMAIN UpperLetters : UpperLetters[i] = c
  THEN 64 + (CHOOSE i \in DOMAIN UpperLetters : UpperLetters[i] = c)
  ELSE IF \E i \in DOMAIN LowerLetters : LowerLetters[i] = c
  THEN 96 + (CHOOSE i \in DOMAIN LowerLetters : LowerLetters[i] = c)
  ELSE IF IsDigit(c) THEN 48 + DigitValue(c)
  ELSE IF c = "-" THEN 45
  ELSE 32

chr(n) ==
  IF n \in 65..90 THEN UpperLetters[n - 64]
  ELSE IF n \in 97..122 THEN LowerLetters[n - 96]
  ELSE IF n \in 48..57 THEN Digits[n - 47]
  ELSE IF n = 45 THEN "-"
  ELSE " "

NoLatLon == [none |-> TRUE, lat2 |-> 0, lon |-> 0]

\* grid_to_latlon(grid), lines 27-42: None, or the centre of the square;
\* lat2 is twice the latitude, so that the half degree is an integer
grid_to_latlon(grid) ==
  IF grid = <<>> \/ Len(grid) < 4 THEN NoLatLon
  ELSE IF ~PyInt(<<grid[3]>>).ok \/ ~PyInt(<<grid[4]>>).ok THEN NoLatLon
  ELSE [none |-> FALSE,
        lon |-> (ord(UpperChar(grid[1])) - ord("A")) * 20 - 180
                + PyInt(<<grid[3]>>).n * 2 + 1,
        lat2 |-> 2 * ((ord(UpperChar(grid[2])) - ord("A")) * 10 - 90
                      + PyInt(<<grid[4]>>).n * 1) + 1]

\* one turn of the loops of get_adjacent_grids with the fields wrapped
\* around the globe instead of bounded
NeighbourWrapped(grid, d_lon, d_lat) ==
  LET field_lon == ord(UpperChar(grid[1]))
      field_lat == ord(UpperChar(grid[2]))
      sq_lon == PyInt(<<grid[3]>>).n + d_lon
      sq_lat == PyInt(<<grid[4]>>).n + d_lat
      new_sq_lon == IF sq_lon < 0 THEN 9 ELSE IF sq_lon > 9 THEN 0 ELSE sq_lon
      new_sq_lat == IF sq_lat < 0 THEN 9 ELSE IF sq_lat > 9 THEN 0 ELSE sq_lat
      new_field_lon == IF sq_lon < 0 THEN field_lon - 1
                       ELSE IF sq_lon > 9 THEN field_lon + 1 ELSE field_lon
      new_field_lat == IF sq_lat < 0 THEN field_lat - 1
                       ELSE IF sq_lat > 9 THEN field_lat + 1 ELSE field_lat
  IN [keep |-> ~(d_lon = 0 /\ d_lat = 0),
      grid |-> <<chr(ord("A") + ((new_field_lon - ord("A")) % 18)),
                 chr(ord("A") + ((new_field_lat - ord("A")) % 18))>>
               \o IntToStr(new_sq_lon) \o IntToStr(new_sq_lat)]

\* one turn of the loops of get_adjacent_grids, lines 61-91: whether a
\* locator is appended, and which
Neighbour(grid, d_lon, d_lat) ==
  LET field_lon == ord(UpperChar(grid[1]))
      field_lat == ord(UpperChar(grid[2]))
      sq_lon == PyInt(<<grid[3]>>).n + d_lon
      sq_lat == PyInt(<<grid[4]>>).n + d_lat
      new_sq_lon == IF sq_lon < 0 THEN 9 ELSE IF sq_lon > 9 THEN 0 ELSE sq_lon
      new_sq_lat == IF sq_lat < 0 THEN 9 ELSE IF sq_lat > 9 THEN 0 ELSE sq_lat
      new_field_lon == IF sq_lon < 0 THEN field_lon - 1
                       ELSE IF sq_lon > 9 THEN field_lon + 1 ELSE field_lon
      new_field_lat == IF sq_lat < 0 THEN field_lat - 1
                       ELSE IF sq_lat > 9 THEN field_lat + 1 ELSE field_lat
  IN [keep |-> /\ ~(d_lon = 0 /\ d_lat = 0)
               /\ ~(new_field_lon < ord("A") \/ new_field_lon > ord("R"))
               /\ ~(new_field_lat < ord("A") \/ new_field_lat > ord("R")),
      grid |-> <<chr(new_field_lon), chr(new_field_lat)>>
               \o IntToStr(new_sq_lon) \o IntToStr(new_sq_lat)]

\* the values of d_lon and of d_lat, in the order of the loops
Deltas == <<-1, 0, 1>>

\* a get_adjacent_grids that does not skip the centre
get_adjacent_grids_all(grid) ==
  IF Len(grid) < 4 THEN <<>>
  ELSE IF ~PyInt(<<grid[3]>>).ok \/ ~PyInt(<<grid[4]>>).ok THEN <<>>
  ELSE [k \in 1..9 |-> Neighbour(grid, Deltas[((k - 1) \div 3) + 1],
                                  Deltas[((k - 1) % 3) + 1]).grid]

\* get_adjacent_grids(grid), lines 45-93
get_adjacent_grids(grid) ==
  IF Len(grid) < 4 THEN <<>>
  ELSE IF ~PyInt(<<grid[3]>>).ok \/ ~PyInt(<<grid[4]>>).ok THEN <<>>
  ELSE LET turns == [k \in 1..9 |-> Neighbour(grid, Deltas[((k - 1) \div 3) + 1],
                                               Deltas[((k - 1) % 3) + 1])]
           Kept(turn) == turn.keep
           kept == SelectSeq(turns, Kept)
       IN [i \in DOMAIN kept |-> kept[i].grid]

(***************************************************************************)
(* database.py: the store.  callsign_grids maps each callsign that has a   *)
(* row to [grid, updated_at]; directed_messages holds the rows in id order;*)
(* next_id is the AUTOINCREMENT counter.  The comparisons of SQLite's      *)
(* default collation are exact, so "k9xyz" and "K9XYZ" are two keys.       *)
(***************************************************************************)
\* an add_message that refuses a row whose reports are not both integers
add_message_checked(messages, id, callsign, timestamp, my_snr_of_them, their_snr_of_me, message, band) ==
  IF PyInt(my_snr_of_them).ok /\ PyInt(their_snr_of_me).ok
  THEN Append(messages, [id |-> id, callsign |-> callsign, timestamp |-> timestamp,
                         my_snr_of_them |-> my_snr_of_them,
                         their_snr_of_me |-> their_snr_of_me,
                         message |-> message, band |-> band])
  ELSE messages

\* add_message: INSERT INTO directed_messages, the id from AUTOINCREMENT
add_message(messages, id, callsign, timestamp, my_snr_of_them, their_snr_of_me, message, band) ==
  Append(messages, [id |-> id, callsign |-> callsign, timestamp |-> timestamp,
                    my_snr_of_them |-> my_snr_of_them,
                    their_snr_of_me |-> their_snr_of_me,
                    message |-> message, band |-> band])

\* an add_grid that replaces the row whatever the grid is
add_grid_replace(grids, callsign, grid, now) ==
  [c \in DOMAIN grids \cup {callsign} |->
     IF c = callsign THEN [grid |-> grid, updated_at |-> now] ELSE grids[c]]

\* a copy of add_grid that does nothing for an empty grid
add_grid_known(grids, callsign, grid, now) ==
  IF grid # <<>>
  THEN [c \in DOMAIN grids \cup {callsign} |->
          IF c = callsign THEN [grid |-> grid, updated_at |-> now] ELSE grids[c]]
  ELSE grids

\* add_grid: upsert for a non-empty grid, INSERT OR IGNORE for an empty one
add_grid(grids, callsign, grid, now) ==
  IF grid # <<>>
  THEN [c \in DOMAIN grids \cup {callsign} |->
          IF c = callsign THEN [grid |-> grid, updated_at |-> now] ELSE grids[c]]
  ELSE [c \in DOMAIN grids \cup {callsign} |->
          IF c \in DOMAIN grids THEN grids[c] ELSE [grid |-> <<>>, updated_at |-> now]]

\* update_grid: UPDATE ... WHERE callsign = ?, no row is created
update_grid(grids, callsign, grid, now) ==
  [c \in DOMAIN grids |->
     IF c = callsign THEN [grid |-> grid, updated_at |-> now] ELSE grids[c]]

\* a delete_messages whose DELETE keeps the rows listed and removes the rest
delete_messages_not_in(messages, message_ids) ==
  IF message_ids = {} THEN messages
  ELSE LET Keep(row) == row.id \in message_ids
       IN SelectSeq(messages, Keep)

\* delete_messages: DELETE ... WHERE id IN (ids); nothing for an empty list
delete_messages(messages, message_ids) ==
  IF message_ids = {} THEN messages
  ELSE LET Keep(row) == row.id \notin message_ids
       IN SelectSeq(messages, Keep)

\* delete_callsign_grid: DELETE FROM callsign_grids WHERE callsign = ?
delete_callsign_grid(grids, callsign) ==
  [c \in DOMAIN grids \ {callsign} |-> grids[c]]

\* a delete_callsign_with_messages that leaves directed_messages alone
delete_messages_of_none(messages, callsign) == messages

\* delete_callsign_with_messages, its DELETE FROM directed_messages
delete_messages_of(messages, callsign) ==
  LET Keep(row) == row.callsign # callsign
  IN SelectSeq(messages, Keep)

\* SQL NULL in a column of texts, written as a text of one character that
\* no Python string holds
Null == <<"NULL">>

RECURSIVE DigitPrefix(_)
DigitPrefix(s) ==
  IF s # <<>> /\ IsDigit(s[1]) THEN <<s[1]>> \o DigitPrefix(Tail(s)) ELSE <<>>

\* CAST(x AS INTEGER): NULL for NULL; for a text the integer its longest
\* prefix spells (blanks, a sign, digits), 0 when there is none
CastInteger(x) ==
  IF x = Null THEN JNull
  ELSE LET t == LStrip(x)
           signed == t # <<>> /\ t[1] \in {"+", "-"}
           mag == DigitsValue(DigitPrefix(IF signed THEN Tail(t) ELSE t))
       IN JNum(IF signed /\ t[1] = "-" THEN 0 - mag ELSE mag)

\* the values an aggregate works on: those that are not NULL
NotNull(column) == {column[i].v : i \in {j \in DOMAIN column : column[j].t # "null"}}

\* MAX(...) and MIN(...), NULL over no value
SqlMax(values) ==
  IF values = {} THEN JNull ELSE JNum(CHOOSE m \in values : \A x \in values : x <= m)

SqlMin(values) ==
  IF values = {} THEN JNull ELSE JNum(CHOOSE m \in values : \A x \in values : m <= x)

RECURSIVE SqlSum(_)
SqlSum(column) ==
  IF column = <<>> THEN 0
  ELSE (IF Head(column).t = "null" THEN 0 ELSE Head(column).v) + SqlSum(Tail(column))

\* AVG(...): the quotient sum / n kept as the two integers, n = 0 for NULL
SqlAvg(column) ==
  [sum |-> SqlSum(column),
   n |-> Cardinality({j \in DOMAIN column : column[j].t # "null"})]

\* GROUP_CONCAT(DISTINCT band): the distinct bands that are not NULL, whose
\* order in the text SQLite leaves open; NULL when there is none
GroupConcatDistinct(bands) ==
  IF \A i \in DOMAIN bands : bands[i] = Null THEN JNull
  ELSE [t |-> "bands", v |-> {bands[i] : i \in DOMAIN bands} \ {Null}]

\* the order of two texts under the collation BINARY
RECURSIVE StrLess(_, _)
StrLess(a, b) ==
  IF b = <<>> THEN FALSE
  ELSE IF a = <<>> THEN TRUE
  ELSE IF a[1] = b[1] THEN StrLess(Tail(a), Tail(b))
  ELSE ord(a[1]) < ord(b[1])

\* ORDER BY callsign DESC
RECURSIVE OrderDescending(_)
OrderDescending(S) ==
  IF S = {} THEN <<>>
  ELSE LET m == CHOOSE m \in S : \A x \in S \ {m} : StrLess(x, m)
       IN <<m>> \o OrderDescending(S \ {m})

\* ORDER BY callsign
RECURSIVE OrderBy(_)
OrderBy(S) ==
  IF S = {} THEN <<>>
  ELSE LET m == CHOOSE m \in S : \A x \in S \ {m} : StrLess(m, x)
       IN <<m>> \o OrderBy(S \ {m})

\* the rows of directed_messages joined to a callsign
JoinedRows(messages, callsign) ==
  LET Joined(row) == row.callsign = callsign
  IN SelectSeq(messages, Joined)

\* get_grids_with_snr_stats, lines 227-246: one row per group of the LEFT
\* JOIN, that is per row of callsign_grids
get_grids_with_snr_stats(grids, messages) ==
  LET order == OrderBy(DOMAIN grids)
      Stats(callsign) ==
        LET dm == JoinedRows(messages, callsign)
            my == [i \in DOMAIN dm |-> CastInteger(dm[i].my_snr_of_them)]
            their == [i \in DOMAIN dm |-> CastInteger(dm[i].their_snr_of_me)]
        IN [callsign |-> callsign,
            grid |-> grids[callsign].grid,
            max_my_snr |-> SqlMax(NotNull(my)),
            min_my_snr |-> SqlMin(NotNull(my)),
            max_their_snr |-> SqlMax(NotNull(their)),
            min_their_snr |-> SqlMin(NotNull(their)),
            last_contact |-> SqlMax({dm[i].timestamp : i \in DOMAIN dm}),
            contact_count |-> Len(dm),
            bands |-> GroupConcatDistinct([i \in DOMAIN dm |-> dm[i].band])]
  IN [i \in DOMAIN order |-> Stats(order[i])]

\* a before b under ORDER BY avg DESC leaves this false: a < b, NULL the
\* smallest value
AvgLess(a, b) ==
  IF a.n = 0 THEN b.n # 0
  ELSE b.n # 0 /\ a.sum * b.n < b.sum * a.n

\* a lookup_by_grid whose WHERE clause is cg.grid LIKE grid || '%' and whose
\* join keeps the callsigns without records
lookup_by_grid_prefix(grids, messages, grid) ==
  LET matches == {c \in DOMAIN grids : StartsWith(Upper(grids[c].grid), Upper(grid))}
      Entry(callsign) ==
        LET dm == JoinedRows(messages, callsign)
            their == [i \in DOMAIN dm |-> CastInteger(dm[i].their_snr_of_me)]
        IN [callsign |-> callsign,
            grid |-> grids[callsign].grid,
            avg_their_snr |-> SqlAvg(their),
            max_their_snr |-> SqlMax(NotNull(their)),
            contact_count |-> Len(dm),
            last_contact |-> SqlMax({dm[i].timestamp : i \in DOMAIN dm})]
      entries == {Entry(c) : c \in matches}
  IN {r \in [1..Cardinality(entries) -> entries] :
        /\ \A i, j \in DOMAIN r : i # j => r[i] # r[j]
        /\ \A i, j \in DOMAIN r :
              i < j => ~AvgLess(r[i].avg_their_snr, r[j].avg_their_snr)}

\* lookup_by_grid, lines 248-265: the results SQLite may return; ORDER BY
\* fixes the order of two groups only when their averages differ
lookup_by_grid(grids, messages, grid) ==
  LET matches == {c \in DOMAIN grids :
                    grids[c].grid = Upper(grid) /\ JoinedRows(messages, c) # <<>>}
      Entry(callsign) ==
        LET dm == JoinedRows(messages, callsign)
            their == [i \in DOMAIN dm |-> CastInteger(dm[i].their_snr_of_me)]
        IN [callsign |-> callsign,
            grid |-> grids[callsign].grid,
            avg_their_snr |-> SqlAvg(their),
            max_their_snr |-> SqlMax(NotNull(their)),
            contact_count |-> Len(dm),
            last_contact |-> SqlMax({dm[i].timestamp : i \in DOMAIN dm})]
      entries == {Entry(c) : c \in matches}
  IN {r \in [1..Cardinality(entries) -> entries] :
        /\ \A i, j \in DOMAIN r : i # j => r[i] # r[j]
        /\ \A i, j \in DOMAIN r :
              i < j => ~AvgLess(r[i].avg_their_snr, r[j].avg_their_snr)}

(***************************************************************************)
(* js8_recorder.py: the grid lookup                                        *)
(***************************************************************************)
\* the sort key of line 521: x["avg_their_snr"] or -999
SortKey(entry) ==
  IF entry.avg_their_snr.n = 0 \/ entry.avg_their_snr.sum = 0
  THEN [sum |-> -999, n |-> 1]
  ELSE entry.avg_their_snr

\* list.sort(key=..., reverse=True): descending, equal keys in their order
RECURSIVE SortReverse(_)
SortReverse(list) ==
  IF list = <<>> THEN <<>>
  ELSE LET sorted == SortReverse(SubSeq(list, 1, Len(list) - 1))
           x == list[Len(list)]
           Before(e) == ~(SortKey(e).sum * SortKey(x).n < SortKey(x).sum * SortKey(e).n)
           head == SelectSeq(sorted, Before)
       IN head \o <<x>> \o SubSeq(sorted, Len(head) + 1, Len(sorted))

\* int(round(avg)): to the nearest integer, a half to the even one
Round(avg) ==
  LET q == avg.sum \div avg.n
      r == avg.sum - q * avg.n
  IN IF 2 * r < avg.n THEN q
     ELSE IF 2 * r > avg.n THEN q + 1
     ELSE IF q % 2 = 0 THEN q ELSE q + 1

\* the row inserted into lookup_tree for an entry (lines 524-549), without
\* its link and age columns
TreeRow(entry, tags) ==
  [callsign |-> entry.callsign,
   grid |-> entry.grid,
   avg |-> IF entry.avg_their_snr.n # 0
           THEN format_snr(JNum(Round(entry.avg_their_snr))) ELSE <<>>,
   max |-> format_snr(entry.max_their_snr),
   contact_count |-> entry.contact_count,
   tags |-> tags]

\* the lists the loop of lines 516-518 may build: one result of
\* lookup_by_grid per adjacent grid, joined
RECURSIVE AdjacentResults(_, _, _)
AdjacentResults(grids, messages, adjacent_grids) ==
  IF adjacent_grids = <<>> THEN {<<>>}
  ELSE {a \o b : a \in lookup_by_grid(grids, messages, Head(adjacent_grids)),
                 b \in AdjacentResults(grids, messages, Tail(adjacent_grids))}

(***************************************************************************)
(* The wire.  A byte is a one-character string, except the two bytes of    *)
(* the UTF-8 encoding of a non-ASCII character, written "C3" and "A9"; the *)
(* character they encode is written "U+E9".                                *)
(***************************************************************************)
NonAscii == "U+E9"
LeadByte == "C3"
ContByte == "A9"
Newline == "\n"

\* str.encode("utf-8")
RECURSIVE Encode(_)
Encode(s) ==
  IF s = <<>> THEN <<>>
  ELSE (IF Head(s) = NonAscii THEN <<LeadByte, ContByte>> ELSE <<Head(s)>>)
       \o Encode(Tail(s))

\* bytes.decode("utf-8"): [ok |-> FALSE] stands for UnicodeDecodeError
RECURSIVE Decode(_)
Decode(b) ==
  IF b = <<>> THEN [ok |-> TRUE, s |-> <<>>]
  ELSE IF Head(b) = LeadByte
       THEN IF Len(b) >= 2 /\ b[2] = ContByte
            THEN LET r == Decode(SubSeq(b, 3, Len(b)))
                 IN [ok |-> r.ok, s |-> <<NonAscii>> \o r.s]
            ELSE [ok |-> FALSE, s |-> <<>>]
       ELSE IF Head(b) = ContByte THEN [ok |-> FALSE, s |-> <<>>]
       ELSE LET r == Decode(Tail(b))
            IN [ok |-> r.ok, s |-> <<Head(b)>> \o r.s]

(***************************************************************************)
(* The JSON texts of the model.  A text is abbreviated to a few characters *)
(* and JsonTexts gives the value json.loads returns for it; every other    *)
(* text (a fragment of one, two of them run together) is not valid JSON.   *)
(***************************************************************************)
W1ABC == <<"W","1","A","B","C">>
w1abc == <<"w","1","a","b","c">>
W2DEF == <<"W","2","D","E","F">>
K9XYZ == <<"K","9","X","Y","Z">>
k9xyz == <<"k","9","x","y","z">>
EN61 == <<"E","N","6","1">>
EM48 == <<"E","M","4","8">>

Directed(params, value) ==
  JObj(<< <<K_type, JStr(RX_DIRECTED)>>, <<K_params, JObj(params)>>,
          <<K_value, JStr(value)>> >>)

\* the notification of the scenario: SNR "-05", text "K9XYZ W1ABC SNR +01"
T_Scenario == <<"{","S","}">>
V_Scenario ==
  Directed(<< <<K_TO, JStr(W1ABC)>>, <<K_FROM, JStr(K9XYZ)>>,
              <<K_GRID, JStr(EN61)>>, <<K_SNR, JStr(<<"-","0","5">>)>> >>,
           <<"K","9","X","Y","Z"," ","W","1","A","B","C"," ","S","N","R"," ","+","0","1">>)

\* the same notification addressed to another station
T_Other == <<"{","O","}">>
V_Other ==
  Directed(<< <<K_TO, JStr(W2DEF)>>, <<K_FROM, JStr(K9XYZ)>>,
              <<K_GRID, JStr(EN61)>>, <<K_SNR, JStr(<<"-","0","5">>)>> >>,
           <<"K","9","X","Y","Z"," ","W","1","A","B","C"," ","S","N","R"," ","+","0","1">>)

\* a notification with no grid, a numeric SNR and a UTC stamp, TO in lower case
T_NoGrid == <<"{","N","}">>
V_NoGrid ==
  Directed(<< <<K_TO, JStr(w1abc)>>, <<K_FROM, JStr(K9XYZ)>>,
              <<K_SNR, JNum(3)>>, <<K_UTC, JNum(2500)>> >>,
           <<"H","E","L","L","O">>)

\* a notification whose params hold nothing but TO
T_NoFrom == <<"{","F","}">>
V_NoFrom == Directed(<< <<K_TO, JStr(W1ABC)>> >>, <<"H","I">>)

\* a notification whose FROM is in lower case
T_Lower == <<"{","L","}">>
V_Lower ==
  Directed(<< <<K_TO, JStr(W1ABC)>>, <<K_FROM, JStr(k9xyz)>>,
              <<K_GRID, JStr(EM48)>> >>, <<"s","n","r"," ","-","1","2">>)

\* a notification whose UTC is a JSON string
T_BadUtc == <<"{","U","}">>
V_BadUtc ==
  Directed(<< <<K_TO, JStr(W1ABC)>>, <<K_FROM, JStr(K9XYZ)>>,
              <<K_UTC, JStr(<<"x">>)>> >>, <<"H","I">>)

\* a notification whose text holds a non-ASCII character
T_NonAscii == <<"{", NonAscii, "}">>
V_NonAscii ==
  Directed(<< <<K_TO, JStr(W1ABC)>>, <<K_FROM, JStr(K9XYZ)>> >>,
           <<"C","A","F", NonAscii>>)

\* an activity snapshot: a grid, a blank grid, an entry that is no table
T_Activity == <<"{","A","}">>
V_Activity ==
  JObj(<< <<K_type, JStr(RX_CALL_ACTIVITY)>>,
          <<K_params, JObj(<< <<K9XYZ, JObj(<< <<K_GRID, JStr(<<" ","E","M","4","8">>)>> >>)>>,
                              <<W2DEF, JObj(<< <<K_GRID, JStr(<<" ">>)>> >>)>>,
                              <<<<"_","I","D">>, JNum(-1)>> >>)>> >>)

\* an object of a type the client does not know, and one with no type
T_Ping == <<"{","P","}">>
V_Ping == JObj(<< <<K_type, JStr(<<"P","I","N","G">>)>> >>)
T_NoType == <<"{","V","}">>
V_NoType == JObj(<< <<K_value, JStr(<<"H","I">>)>> >>)

\* JSON values that are no object: an array, null
T_Array == <<"[","1","]">>
V_Array == JArr(<<JNum(1)>>)
T_Null == <<"n","u","l","l">>

\* a line that is not JSON, and a blank line
T_Junk == <<"{","x">>
T_Blank == <<" ">>

JsonTexts ==
  << <<T_Scenario, V_Scenario>>, <<T_Other, V_Other>>, <<T_NoGrid, V_NoGrid>>,
     <<T_NoFrom, V_NoFrom>>, <<T_Lower, V_Lower>>, <<T_BadUtc, V_BadUtc>>,
     <<T_NonAscii, V_NonAscii>>, <<T_Activity, V_Activity>>, <<T_Ping, V_Ping>>,
     <<T_NoType, V_NoType>>, <<T_Array, V_Array>>, <<T_Null, JNull>> >>

\* _parse_message(data): json.loads, None (JNull) on JSONDecodeError
_parse_message(data) ==
  IF \E i \in DOMAIN JsonTexts : JsonTexts[i][1] = data
  THEN JsonTexts[CHOOSE i \in DOMAIN JsonTexts : JsonTexts[i][1] = data][2]
  ELSE JNull

\* a snapshot loop that looks at the first entry of the table only
CallActivityHead(params, keys) ==
  IF keys = <<>> THEN NoEvents("none")
  ELSE LET call == Head(keys)
           info == params[call]
           grid == IF info.t = "obj" THEN Get(info.v, K_GRID, JNull) ELSE JNull
       IN IF info.t = "obj" /\ Truthy(grid)
          THEN IF grid.t # "str" THEN NoEvents("AttributeError")
               ELSE [exc |-> "none", events |-> <<GridEvent(call, Strip(grid.v))>>]
          ELSE NoEvents("none")

\* lines 184-187: the grid events of an activity snapshot, in dict order
RECURSIVE CallActivity(_, _)
CallActivity(params, keys) ==
  IF keys = <<>> THEN NoEvents("none")
  ELSE LET call == Head(keys)
           info == params[call]
           grid == IF info.t = "obj" THEN Get(info.v, K_GRID, JNull) ELSE JNull
       IN IF info.t = "obj" /\ Truthy(grid)
          THEN IF grid.t # "str" THEN NoEvents("AttributeError")
               ELSE LET rest == CallActivity(params, Tail(keys))
                    IN [exc |-> rest.exc,
                        events |-> <<GridEvent(call, Strip(grid.v))>> \o rest.events]
          ELSE CallActivity(params, Tail(keys))

\* lines 175-187: what the receive loop does with a parsed line
Dispatch(msg, my_callsign, now) ==
  IF ~Truthy(msg) THEN NoEvents("none")
  ELSE IF msg.t # "obj" THEN NoEvents("AttributeError")
  ELSE LET msg_type == Get(msg.v, K_type, JStr(<<>>)) IN
  IF msg_type.t = "str" /\ msg_type.v = RX_DIRECTED
  THEN _process_directed(msg.v, my_callsign, now)
  ELSE IF msg_type.t = "str" /\ msg_type.v = RX_CALL_ACTIVITY
  THEN LET params == Get(msg.v, K_params, JObj(<<>>))
       IN IF params.t # "obj" THEN NoEvents("AttributeError")
          ELSE CallActivity(params.v, params.k)
  ELSE NoEvents("none")

\* lines 171-187: what the receive loop does with one line
DispatchLine(line, my_callsign, now) ==
  IF Strip(line) = <<>> THEN NoEvents("none")
  ELSE Dispatch(_parse_message(line), my_callsign, now)

\* line 170: line, buffer = buffer.split("\n", 1)
SplitLine(buffer) ==
  LET i == Find(buffer, <<Newline>>)
  IN [line |-> SubSeq(buffer, 1, i - 1),
      rest |-> SubSeq(buffer, i + 1, Len(buffer))]

(***************************************************************************)
(* Bounds of the model                                                     *)
(***************************************************************************)
\* the work of one behaviour: a call of start() that passes its first test
\* counts two, a line sent by the server counts one
MaxWork == 4
\* rows ever inserted into directed_messages by direct calls of the store
MaxRows == 2

\* recv(4096), line 160
RecvSize == 4096

\* the values datetime.utcnow() takes
Times == {7}

\* what the operator types into the callsign entry
CallsignEntries == {w1abc}

\* the lines the server sends
AllTexts == {JsonTexts[i][1] : i \in DOMAIN JsonTexts} \cup {T_Junk, T_Blank}

\* the lines that raise events, and one that raises none
RecordTexts == {T_Scenario, T_Activity, T_NoFrom}

\* what the grid editor's save() returns: "" or a locator, stripped, upper
EditedGrids == {<<>>, EM48}

(***************************************************************************)
(* State                                                                   *)
(***************************************************************************)
VARIABLES
  my_callsign,        \* JS8Client.my_callsign
  running,            \* JS8Client.running
  sock,               \* JS8Client.sock: an index of sockets, 0 for None
  thread,             \* JS8Client.thread: an index of pc, 0 for None
  pc,                 \* per receive thread, its position in _run
  buffer,             \* per receive thread, the local buffer of _run
  sockets,            \* the socket objects created by _connect
  msg_queue,          \* JS8RecorderApp.msg_queue
  mainpc,             \* what the main thread is doing
  callsign_grids,     \* table callsign_grids
  directed_messages,  \* table directed_messages
  next_id,            \* AUTOINCREMENT of directed_messages
  lines_sent,         \* history: lines the server has sent
  failed_starts,      \* history: calls of start() refused for want of a callsign
  received,           \* history: per thread, the bytes recv returned
  split_lines,        \* history: per thread, the lines split off the buffer
  raised,             \* history: per thread, the exception that ended it
  emitted,            \* history: the callbacks made, with thread and line
  applied,            \* history: the queue items the consumer has processed
  last,               \* history: the last call of the client or the store
  fn_in,              \* the notification _process_directed is run on, on its own
  fn_out              \* what it raised and the callbacks it made

clientVars == <<my_callsign, running, sock, thread>>
threadVars == <<pc, buffer>>
storeVars == <<callsign_grids, directed_messages, next_id>>
histVars == <<lines_sent, received, split_lines, raised, emitted, applied>>
fnVars == <<last, fn_in, fn_out, failed_starts>>
vars == <<my_callsign, running, sock, thread, pc, buffer, sockets, msg_queue,
          mainpc, callsign_grids, directed_messages, next_id, lines_sent,
          received, split_lines, raised, emitted, applied, last, fn_in, fn_out,
          failed_starts>>

NoCall == [op |-> "none", callsign |-> <<>>, grid |-> <<>>, ids |-> {}]

Call(op, callsign, grid, ids) ==
  [op |-> op, callsign |-> callsign, grid |-> grid, ids |-> ids]

\* the client after __init__ (lines 23-35), the application after its own
\* (js8_recorder.py lines 42-52), an empty store
InitState ==
  /\ my_callsign = <<>> /\ running = FALSE /\ sock = 0 /\ thread = 0
  /\ pc = <<>> /\ buffer = <<>> /\ sockets = <<>>
  /\ msg_queue = <<>> /\ mainpc = "idle"
  /\ callsign_grids = <<>> /\ directed_messages = <<>> /\ next_id = 1
  /\ lines_sent = 0 /\ received = <<>> /\ split_lines = <<>> /\ raised = <<>>
  /\ emitted = <<>> /\ applied = <<>>
  /\ last = NoCall /\ failed_starts = 0

NoResult == [done |-> FALSE, exc |-> "none", events |-> <<>>]

Init == InitState /\ fn_in = <<>> /\ fn_out = NoResult

\* a callback of the application: put the item on the queue (lines 555-569);
\* n is the number of lines thread t has split off its buffer
\* a queue that hands the newest events out first
EnqueueFront(t, n, events) ==
  /\ msg_queue' = events \o msg_queue
  /\ emitted' = emitted \o
       [i \in DOMAIN events |-> [thread |-> t, line |-> n, event |-> events[i]]]

\* callbacks that leave the queue alone
EnqueueNothing(t, n, events) ==
  /\ msg_queue' = msg_queue
  /\ emitted' = emitted \o
       [i \in DOMAIN events |-> [thread |-> t, line |-> n, event |-> events[i]]]

\* the callbacks _on_message, _on_grid, _on_status, _on_error (lines 555-569)
\* put the events on the queue; emitted keeps them with the thread and the
\* number of the line they were emitted at
Enqueue(t, n, events) ==
  /\ msg_queue' = msg_queue \o events
  /\ emitted' = emitted \o
       [i \in DOMAIN events |-> [thread |-> t, line |-> n, event |-> events[i]]]

LinesOf(t) == Len(split_lines[t])

Work == 2 * (Len(pc) + failed_starts) + lines_sent

(***************************************************************************)
(* JS8Client.start and JS8Client.stop, called on the main thread           *)
(***************************************************************************)
\* a start() that does not look at the callsign
StartUnchecked(callsign) ==
  IF running
  THEN UNCHANGED <<running, thread, threadVars, msg_queue, histVars,
                  failed_starts>>
  ELSE /\ Work + 2 <= MaxWork
       /\ running' = TRUE
       /\ thread' = Len(pc) + 1
       /\ pc' = Append(pc, "connect")
       /\ buffer' = Append(buffer, <<>>)
       /\ received' = Append(received, <<>>)
       /\ split_lines' = Append(split_lines, <<>>)
       /\ raised' = Append(raised, "none")
       /\ UNCHANGED <<msg_queue, lines_sent, emitted, applied, failed_starts>>

\* start() of a client whose my_callsign is callsign; failed_starts counts
\* the calls that returned False
StartBody(callsign) ==
  IF running
  THEN UNCHANGED <<running, thread, threadVars, msg_queue, histVars,
                  failed_starts>>
  ELSE IF callsign = <<>>
  THEN /\ Work + 2 <= MaxWork
       /\ failed_starts' = failed_starts + 1
       /\ Enqueue(0, 0, <<ErrorEvent("Callsign is required")>>)
       /\ UNCHANGED <<running, thread, threadVars, lines_sent, received,
                      split_lines, raised, applied>>
  ELSE /\ Work + 2 <= MaxWork
       /\ running' = TRUE
       /\ thread' = Len(pc) + 1
       /\ pc' = Append(pc, "connect")
       /\ buffer' = Append(buffer, <<>>)
       /\ received' = Append(received, <<>>)
       /\ split_lines' = Append(split_lines, <<>>)
       /\ raised' = Append(raised, "none")
       /\ UNCHANGED <<msg_queue, lines_sent, emitted, applied, failed_starts>>

\* start() called as it is
Start ==
  /\ mainpc = "idle"
  /\ StartBody(my_callsign)
  /\ last' = Call("start", my_callsign, <<>>, {})
  /\ UNCHANGED <<my_callsign, sock, sockets, mainpc, storeVars, fn_in, fn_out>>

\* _toggle_listening when the client is not running: set_config, then start()
StartListening(entry) ==
  /\ mainpc = "idle"
  /\ ~running
  /\ my_callsign' = Upper(entry)
  /\ StartBody(Upper(entry))
  /\ last' = Call("start", Upper(entry), <<>>, {})
  /\ UNCHANGED <<sock, sockets, mainpc, storeVars, fn_in, fn_out>>

\* the caller's last call was stop()
StopRequested == last.op \in {"stop", "stop_again"}

\* stop(), line 60; the history tells a call of stop() that follows a call
\* of stop() from one that follows a start()
StopFlag ==
  /\ mainpc = "idle"
  /\ running' = FALSE
  /\ mainpc' = "stopping"
  /\ last' = Call(IF StopRequested THEN "stop_again" ELSE "stop", <<>>, <<>>, {})
  /\ UNCHANGED <<my_callsign, sock, thread, threadVars, sockets, msg_queue,
                 storeVars, histVars, fn_in, fn_out, failed_starts>>

CloseSocket(s) ==
  IF s = 0 THEN sockets
  ELSE [sockets EXCEPT ![s].state = "closed"]

\* stop(), lines 61-65: the socket is closed, an error of close swallowed
StopClose ==
  /\ mainpc = "stopping"
  /\ sockets' = CloseSocket(sock)
  /\ mainpc' = "joining"
  /\ UNCHANGED <<clientVars, threadVars, msg_queue, storeVars, histVars, fnVars>>

\* receive thread t has not returned from _run
IsAlive(t) == t # 0 /\ pc[t] \notin {"done", "crashed"}

\* stop(), lines 66-67: join(timeout=2.0) returns when the thread has ended,
\* or after 2 s, which only the connect of lines 73-74 (timeout 5 s) outlasts:
\* recv times out after 1 s and every other step of _run returns at once
StopJoin ==
  /\ mainpc = "joining"
  /\ IsAlive(thread) => pc[thread] = "connecting"
  /\ mainpc' = "idle"
  /\ UNCHANGED <<clientVars, threadVars, sockets, msg_queue, storeVars,
                 histVars, fnVars>>

(***************************************************************************)
(* JS8Client._run on receive thread t, one step for each access to the     *)
(* client's fields, to a socket or to the queue                            *)
(***************************************************************************)
Goto(t, label) == pc' = [pc EXCEPT ![t] = label]

\* the socket object receive thread t makes at line 72
NewSocket(t) ==
  [state |-> "open", wire |-> <<>>, eof |-> FALSE, sent |-> <<>>, owner |-> t]

\* the socket thread t has called connect() on
SocketOf(t) == CHOOSE s \in DOMAIN sockets : sockets[s].owner = t

\* _connect, line 72: self.sock = socket.socket(...)
Connect(t) ==
  /\ pc[t] = "connect"
  /\ sockets' = Append(sockets, NewSocket(t))
  /\ sock' = Len(sockets) + 1
  /\ Goto(t, "connecting")
  /\ UNCHANGED <<my_callsign, running, thread, buffer, msg_queue, mainpc,
                 storeVars, histVars, fnVars>>

\* _connect, lines 73-75: the connect() the thread called on its socket
\* returns; settimeout(1.0) of line 75 is then called on self.sock and
\* raises socket.error when that socket is closed
ConnectOk(t) ==
  /\ pc[t] = "connecting"
  /\ sockets[SocketOf(t)].state = "open"
  /\ sockets' = [sockets EXCEPT ![SocketOf(t)].state = "connected"]
  /\ Goto(t, IF sockets'[sock].state = "closed" THEN "connect_error"
             ELSE "connected")
  /\ UNCHANGED <<clientVars, buffer, msg_queue, mainpc, storeVars, histVars,
                 fnVars>>

\* _connect, lines 73-75 raise socket.error: refused, timed out, or the
\* socket was closed by stop()
ConnectRaises(t) ==
  /\ pc[t] = "connecting"
  /\ Goto(t, "connect_error")
  /\ UNCHANGED <<clientVars, buffer, sockets, msg_queue, mainpc, storeVars,
                 histVars, fnVars>>

\* _connect, lines 76-78: on_status("Connected to ..."), return True
Connected(t) ==
  /\ pc[t] = "connected"
  /\ Enqueue(t, LinesOf(t), <<StatusEvent("Connected")>>)
  /\ Goto(t, "send")
  /\ UNCHANGED <<clientVars, buffer, sockets, mainpc, storeVars, lines_sent,
                 received, split_lines, raised, applied, fnVars>>

\* _connect, lines 79-82: on_error("Connection failed: ..."), return False
ConnectError(t) ==
  /\ pc[t] = "connect_error"
  /\ Enqueue(t, LinesOf(t), <<ErrorEvent("Connection failed")>>)
  /\ Goto(t, "connect_failed")
  /\ UNCHANGED <<clientVars, buffer, sockets, mainpc, storeVars, lines_sent,
                 received, split_lines, raised, applied, fnVars>>

\* _run, lines 149-151: self.running = False; return
ConnectFailed(t) ==
  /\ pc[t] = "connect_failed"
  /\ running' = FALSE
  /\ Goto(t, "done")
  /\ UNCHANGED <<my_callsign, sock, thread, buffer, sockets, msg_queue, mainpc,
                 storeVars, histVars, fnVars>>

\* _send_command(msg_type): the command goes out on a connected socket, a
\* socket.error is swallowed
_send_command(msg_type) ==
  IF sock # 0 /\ sockets[sock].state = "connected"
  THEN [sockets EXCEPT ![sock].sent = Append(@, msg_type)]
  ELSE sockets

\* _run, lines 154-156: the snapshot request, buffer = ""
Send(t) ==
  /\ pc[t] = "send"
  /\ sockets' = _send_command(RX_GET_CALL_ACTIVITY)
  /\ buffer' = [buffer EXCEPT ![t] = <<>>]
  /\ Goto(t, "loop")
  /\ UNCHANGED <<clientVars, msg_queue, mainpc, storeVars, histVars, fnVars>>

\* _run, line 158: while self.running
Loop(t) ==
  /\ pc[t] = "loop"
  /\ Goto(t, IF running THEN "recv" ELSE "finish")
  /\ UNCHANGED <<clientVars, buffer, sockets, msg_queue, mainpc, storeVars,
                 histVars, fnVars>>

\* _run, lines 160-166: recv returns the first n bytes in flight, which are
\* decoded and appended to the buffer; a sequence cut by the end of the
\* chunk raises UnicodeDecodeError, which no handler of _run catches
RecvData(t) ==
  /\ pc[t] = "recv"
  /\ sockets[sock].state = "connected"
  /\ \E n \in 1..Len(sockets[sock].wire) :
     n <= RecvSize /\
     LET data == SubSeq(sockets[sock].wire, 1, n)
         text == Decode(data)
     IN /\ sockets' = [sockets EXCEPT
                         ![sock].wire = SubSeq(@, n + 1, Len(@))]
        /\ received' = [received EXCEPT ![t] = @ \o data]
        /\ IF text.ok
           THEN /\ buffer' = [buffer EXCEPT ![t] = @ \o text.s]
                /\ Goto(t, "lines")
                /\ UNCHANGED raised
           ELSE /\ Goto(t, "crashed")
                /\ raised' = [raised EXCEPT ![t] = "UnicodeDecodeError"]
                /\ UNCHANGED buffer
  /\ UNCHANGED <<clientVars, msg_queue, mainpc, storeVars, lines_sent,
                 split_lines, emitted, applied, fnVars>>

\* _run, lines 160-161: recv returns b"" at the end of the stream
RecvEof(t) ==
  /\ pc[t] = "recv"
  /\ sockets[sock].state = "connected"
  /\ sockets[sock].wire = <<>> /\ sockets[sock].eof
  /\ Goto(t, "eof")
  /\ UNCHANGED <<clientVars, buffer, sockets, msg_queue, mainpc, storeVars,
                 histVars, fnVars>>

\* _run, lines 189-190: socket.timeout after a second without data
RecvTimeout(t) ==
  /\ pc[t] = "recv"
  /\ sockets[sock].state = "connected"
  /\ sockets[sock].wire = <<>> /\ ~sockets[sock].eof
  /\ Goto(t, "loop")
  /\ UNCHANGED <<clientVars, buffer, sockets, msg_queue, mainpc, storeVars,
                 histVars, fnVars>>

\* _run, line 191: recv raises socket.error, on a socket that stop() closed
\* or on a failure of the transport
RecvRaises(t) ==
  /\ pc[t] = "recv"
  /\ Goto(t, "recv_error")
  /\ UNCHANGED <<clientVars, buffer, sockets, msg_queue, mainpc, storeVars,
                 histVars, fnVars>>

\* _run, lines 162-164: on_status("Connection closed by server"); break
Eof(t) ==
  /\ pc[t] = "eof"
  /\ Enqueue(t, LinesOf(t), <<StatusEvent("Connection closed by server")>>)
  /\ Goto(t, "finish")
  /\ UNCHANGED <<clientVars, buffer, sockets, mainpc, storeVars, lines_sent,
                 received, split_lines, raised, applied, fnVars>>

\* _run, lines 192-195: on_error only while running; break
RecvError(t) ==
  /\ pc[t] = "recv_error"
  /\ Enqueue(t, LinesOf(t),
             IF running THEN <<ErrorEvent("Connection error")>> ELSE <<>>)
  /\ Goto(t, "finish")
  /\ UNCHANGED <<clientVars, buffer, sockets, mainpc, storeVars, lines_sent,
                 received, split_lines, raised, applied, fnVars>>

\* _run, lines 169-187: one turn of the inner loop; an exception of the
\* dispatch is caught by no handler of _run and ends the thread
Lines(t) ==
  /\ pc[t] = "lines"
  /\ IF Find(buffer[t], <<Newline>>) = 0
     THEN /\ Goto(t, "loop")
          /\ UNCHANGED <<buffer, msg_queue, split_lines, raised, emitted>>
     ELSE \E now \in Times :
            LET cut == SplitLine(buffer[t])
                res == DispatchLine(cut.line, my_callsign, now)
            IN /\ buffer' = [buffer EXCEPT ![t] = cut.rest]
               /\ split_lines' = [split_lines EXCEPT ![t] = Append(@, cut.line)]
               /\ Enqueue(t, LinesOf(t) + 1, res.events)
               /\ raised' = [raised EXCEPT ![t] = res.exc]
               /\ Goto(t, IF res.exc = "none" THEN "lines" ELSE "crashed")
  /\ UNCHANGED <<clientVars, sockets, mainpc, storeVars, lines_sent, received,
                 applied, fnVars>>

\* _run, line 197: self.running = False
Finish(t) ==
  /\ pc[t] = "finish"
  /\ running' = FALSE
  /\ Goto(t, "close")
  /\ UNCHANGED <<my_callsign, sock, thread, buffer, sockets, msg_queue, mainpc,
                 storeVars, histVars, fnVars>>

\* _run, lines 198-202: self.sock.close()
Close(t) ==
  /\ pc[t] = "close"
  /\ sockets' = CloseSocket(sock)
  /\ Goto(t, "disconnected")
  /\ UNCHANGED <<clientVars, buffer, msg_queue, mainpc, storeVars, histVars,
                 fnVars>>

\* _run, lines 203-204: on_status("Disconnected")
Disconnected(t) ==
  /\ pc[t] = "disconnected"
  /\ Enqueue(t, LinesOf(t), <<StatusEvent("Disconnected")>>)
  /\ Goto(t, "done")
  /\ UNCHANGED <<clientVars, buffer, sockets, mainpc, storeVars, lines_sent,
                 received, split_lines, raised, applied, fnVars>>

(***************************************************************************)
(* The JS8Call end of a connection                                         *)
(***************************************************************************)
ServerSend(s, text) ==
  /\ sockets[s].state = "connected" /\ ~sockets[s].eof
  /\ Work + 1 <= MaxWork
  /\ sockets' = [sockets EXCEPT ![s].wire = @ \o Encode(text) \o <<Newline>>]
  /\ lines_sent' = lines_sent + 1
  /\ UNCHANGED <<clientVars, threadVars, msg_queue, mainpc, storeVars, received,
                 split_lines, raised, emitted, applied, fnVars>>

ServerClose(s) ==
  /\ sockets[s].state = "connected" /\ ~sockets[s].eof
  /\ sockets' = [sockets EXCEPT ![s].eof = TRUE]
  /\ UNCHANGED <<clientVars, threadVars, msg_queue, mainpc, storeVars, histVars,
                 fnVars>>

(***************************************************************************)
(* JS8RecorderApp on the main thread: the consumer of the queue and the    *)
(* operator's edits                                                        *)
(***************************************************************************)
\* data.get(key, default) on the record of a message event
RecordGet(data, key, default) ==
  IF key \in DOMAIN data THEN data[key] ELSE default

\* _process_queue, lines 575-619: one item taken off the queue and handled
ProcessQueueItem ==
  /\ mainpc \in {"idle", "draining"}
  /\ msg_queue # <<>>
  /\ LET item == Head(msg_queue)
     IN /\ msg_queue' = Tail(msg_queue)
        /\ applied' = Append(applied, item)
        /\ mainpc' = "draining"
        /\ \E now \in Times :
             CASE item.type = "message" ->
                    /\ directed_messages' =
                         add_message(directed_messages, next_id,
                                     item.data.callsign, item.data.timestamp,
                                     item.data.my_snr_of_them,
                                     item.data.their_snr_of_me,
                                     item.data.message,
                                     RecordGet(item.data, "band", <<>>))
                    /\ next_id' = next_id + 1
                    /\ callsign_grids' =
                         add_grid(callsign_grids, item.data.callsign,
                                  item.data.grid, now)
               [] item.type = "grid" ->
                    /\ callsign_grids' =
                         add_grid(callsign_grids, item.data[1], item.data[2], now)
                    /\ UNCHANGED <<directed_messages, next_id>>
               [] OTHER -> UNCHANGED storeVars
  /\ UNCHANGED <<clientVars, threadVars, sockets, lines_sent, received,
                 split_lines, raised, emitted, fnVars>>

\* _process_queue, lines 621-625: queue.Empty ends the drain
ProcessQueueEmpty ==
  /\ mainpc = "draining"
  /\ msg_queue = <<>>
  /\ mainpc' = "idle"
  /\ UNCHANGED <<clientVars, threadVars, sockets, msg_queue, storeVars,
                 histVars, fnVars>>

\* _on_grids_tree_double_click, lines 478-485: the operator edits the grid
\* of a listed callsign
EditGrid(callsign, new_grid) ==
  /\ mainpc = "idle"
  /\ callsign \in DOMAIN callsign_grids
  /\ \E now \in Times :
       callsign_grids' = update_grid(callsign_grids, callsign, new_grid, now)
  /\ UNCHANGED <<clientVars, threadVars, sockets, msg_queue, mainpc,
                 directed_messages, next_id, histVars, fnVars>>

\* _delete_selected_grids, lines 747-792, for one selected callsign: with
\* its messages ("all") or without
DeleteSelectedGrids(callsign, all) ==
  /\ mainpc = "idle"
  /\ callsign \in DOMAIN callsign_grids
  /\ callsign_grids' = delete_callsign_grid(callsign_grids, callsign)
  /\ directed_messages' =
       IF all THEN delete_messages_of(directed_messages, callsign)
       ELSE directed_messages
  /\ UNCHANGED <<clientVars, threadVars, sockets, msg_queue, mainpc, next_id,
                 histVars, fnVars>>

ClientNext ==
  \/ Start
  \/ \E entry \in CallsignEntries : StartListening(entry)
  \/ StopFlag
  \/ StopClose
  \/ StopJoin

\* the next step of receive thread t
ThreadStep(t) ==
  \/ Connect(t) \/ ConnectOk(t) \/ ConnectRaises(t) \/ Connected(t)
  \/ ConnectError(t) \/ ConnectFailed(t) \/ Send(t) \/ Loop(t)
  \/ RecvData(t)
  \/ RecvEof(t) \/ RecvTimeout(t) \/ RecvRaises(t) \/ Eof(t)
  \/ RecvError(t) \/ Lines(t) \/ Finish(t) \/ Close(t) \/ Disconnected(t)

ThreadNext == \E t \in DOMAIN pc : ThreadStep(t)

ServerNext(texts) ==
  \E s \in DOMAIN sockets :
    \/ \E text \in texts : ServerSend(s, text)
    \/ ServerClose(s)

ConsumerNext ==
  \/ ProcessQueueItem
  \/ ProcessQueueEmpty

OperatorNext ==
  \/ \E c \in DOMAIN callsign_grids, g \in EditedGrids : EditGrid(c, g)
  \/ \E c \in DOMAIN callsign_grids, all \in BOOLEAN : DeleteSelectedGrids(c, all)

\* one session of the listener, from the first start() on: the JS8Call end
\* of its connection and the consumer of its events
SessionNext ==
  \/ Len(pc) = 0 /\ Start
  \/ Len(pc) = 0 /\ \E entry \in CallsignEntries : StartListening(entry)
  \/ StopFlag
  \/ StopClose
  \/ StopJoin

Next == SessionNext \/ ThreadNext \/ ServerNext(RecordTexts) \/ ConsumerNext

Spec == Init /\ [][Next]_vars

\* the listener alone, with every line of the model on the wire
NextListener == ClientNext \/ ThreadNext \/ ServerNext(AllTexts)

SpecListener == Init /\ [][NextListener]_vars

(***************************************************************************)
(* The caller's start() and stop() against the receive threads, with one   *)
(* short line on the wire                                                  *)
(***************************************************************************)
ControlTexts == {T_Junk}

NextControl == ClientNext \/ ThreadNext \/ ServerNext(ControlTexts)

SpecControl == Init /\ [][NextControl]_vars

\* threads one start() can have created within the work bound
MaxThreads == MaxWork \div 2

\* the scheduler runs every live thread, and a call of stop() that has begun
\* goes on to its close and its join
Fairness ==
  /\ \A t \in 1..MaxThreads : WF_vars(t \in DOMAIN pc /\ ThreadStep(t))
  /\ WF_vars(StopClose)
  /\ WF_vars(StopJoin)

SpecControlFair == SpecControl /\ Fairness

\* no receive thread is running _run
NoThreadAlive == \A t \in DOMAIN pc : ~IsAlive(t)

\* the caller starts a run only after the run before it has ended
RestartNext ==
  \/ NoThreadAlive /\ Start
  \/ NoThreadAlive /\ \E entry \in CallsignEntries : StartListening(entry)
  \/ StopFlag
  \/ StopClose
  \/ StopJoin

\* runs one after another, with the JS8Call end and the consumer
NextRestart ==
  RestartNext \/ ThreadNext \/ ServerNext(ControlTexts) \/ ConsumerNext

SpecRestart == Init /\ [][NextRestart]_vars

(***************************************************************************)
(* The consumer under any sequence of listener events: the callbacks are   *)
(* called with any record and any grid                                     *)
(***************************************************************************)
\* events the callbacks are given in one behaviour
MaxEvents == 3

CallbackCallsigns == {K9XYZ, W2DEF}

CallbackRecords ==
  {[callsign |-> c, timestamp |-> 7, my_snr_of_them |-> <<"3">>,
    their_snr_of_me |-> <<>>, message |-> <<"H","I">>, grid |-> g] :
     c \in CallbackCallsigns, g \in {<<>>, EN61}}

\* _on_message(record), lines 555-557
OnMessage(record) ==
  /\ Len(emitted) < MaxEvents
  /\ Enqueue(0, 0, <<MessageEvent(record)>>)
  /\ UNCHANGED <<clientVars, threadVars, sockets, mainpc, storeVars, lines_sent,
                 received, split_lines, raised, applied, fnVars>>

\* _on_grid(callsign, grid), lines 559-561
OnGrid(callsign, grid) ==
  /\ Len(emitted) < MaxEvents
  /\ Enqueue(0, 0, <<GridEvent(callsign, grid)>>)
  /\ UNCHANGED <<clientVars, threadVars, sockets, mainpc, storeVars, lines_sent,
                 received, split_lines, raised, applied, fnVars>>

CallbackNext ==
  \/ \E record \in CallbackRecords : OnMessage(record)
  \/ \E c \in CallbackCallsigns, g \in {<<>>, EM48} : OnGrid(c, g)

NextConsumer == CallbackNext \/ ConsumerNext \/ OperatorNext

SpecConsumer == Init /\ [][NextConsumer]_vars

(***************************************************************************)
(* The store under direct calls of its methods                             *)
(***************************************************************************)
StoreCallsigns == {K9XYZ, W2DEF}
StoreGrids == {<<>>, EN61, EM48}

\* the rows add_message is given: timestamp, the two reports, the band
StoreRows ==
  {<<7, <<"3">>, <<"-","2">>, <<"4","0","m">>>>,
   <<8, <<>>, <<"3">>, <<>>>>}

StoreFrame ==
  UNCHANGED <<clientVars, threadVars, sockets, msg_queue, mainpc, histVars,
              fn_in, fn_out, failed_starts>>

StoreAddMessage(callsign, row) ==
  /\ next_id <= MaxRows
  /\ directed_messages' =
       add_message(directed_messages, next_id, callsign, row[1], row[2],
                   row[3], <<"H","I">>, row[4])
  /\ next_id' = next_id + 1
  /\ last' = Call("add_message", callsign, <<>>, {next_id})
  /\ UNCHANGED callsign_grids
  /\ StoreFrame

StoreAddGrid(callsign, grid) ==
  /\ \E now \in Times :
       callsign_grids' = add_grid(callsign_grids, callsign, grid, now)
  /\ last' = Call("add_grid", callsign, grid, {})
  /\ UNCHANGED <<directed_messages, next_id>>
  /\ StoreFrame

StoreUpdateGrid(callsign, grid) ==
  /\ \E now \in Times :
       callsign_grids' = update_grid(callsign_grids, callsign, grid, now)
  /\ last' = Call("update_grid", callsign, grid, {})
  /\ UNCHANGED <<directed_messages, next_id>>
  /\ StoreFrame

StoreDeleteMessages(ids) ==
  /\ directed_messages' = delete_messages(directed_messages, ids)
  /\ last' = Call("delete_messages", <<>>, <<>>, ids)
  /\ UNCHANGED <<callsign_grids, next_id>>
  /\ StoreFrame

StoreDeleteCallsignGrid(callsign) ==
  /\ callsign_grids' = delete_callsign_grid(callsign_grids, callsign)
  /\ last' = Call("delete_callsign_grid", callsign, <<>>, {})
  /\ UNCHANGED <<directed_messages, next_id>>
  /\ StoreFrame

StoreDeleteCallsignWithMessages(callsign) ==
  /\ directed_messages' = delete_messages_of(directed_messages, callsign)
  /\ callsign_grids' = delete_callsign_grid(callsign_grids, callsign)
  /\ last' = Call("delete_callsign_with_messages", callsign, <<>>, {})
  /\ UNCHANGED next_id
  /\ StoreFrame

NextStore ==
  \/ \E c \in StoreCallsigns, row \in StoreRows : StoreAddMessage(c, row)
  \/ \E c \in StoreCallsigns, g \in StoreGrids : StoreAddGrid(c, g)
  \/ \E c \in StoreCallsigns, g \in StoreGrids : StoreUpdateGrid(c, g)
  \/ \E ids \in SUBSET (1..MaxRows) : StoreDeleteMessages(ids)
  \/ \E c \in StoreCallsigns : StoreDeleteCallsignGrid(c)
  \/ \E c \in StoreCallsigns : StoreDeleteCallsignWithMessages(c)

SpecStore == Init /\ [][NextStore]_vars


(***************************************************************************)
(* _process_directed on its own: the notification is drawn field by field  *)
(***************************************************************************)
Absent == [t |-> "absent", v |-> <<>>]

Opt(key, choice) == IF choice.t = "absent" THEN <<>> ELSE << <<key, choice>> >>

ToChoices == {Absent, JStr(W1ABC), JStr(w1abc), JStr(W2DEF), JNull}
FromChoices == {Absent, JStr(K9XYZ), JStr(k9xyz), JStr(<<>>)}
GridChoices == {Absent, JStr(EN61), JStr(<<" ","E","M","4","8"," ">>), JStr(<<" ">>)}
SnrChoices == {Absent, JStr(<<"-","0","5">>), JStr(<<"+","0","2">>), JNum(3), JStr(<<"A","B">>)}
UtcChoices == {Absent, JNum(2500), JNum(0), JStr(<<"x">>)}
BandChoices == {Absent, JStr(<<"4","0","m">>)}
ValueChoices ==
  {<<"K","9","X","Y","Z"," ","W","1","A","B","C"," ","S","N","R"," ","+","0","1">>, <<"H","I">>, <<"s","n","r"," ","-","1","2">>, <<"S","N","R"," ","1","+","2">>, <<"S","N","R"," ","-","3","S","N","R">>,
   <<"S","N","R">>, <<"S","N","R"," ","A","B","C">>, <<>>}

ExtractInputs ==
  {[msg |-> Directed(Opt(K_TO, to) \o Opt(K_FROM, from) \o Opt(K_GRID, grid)
                       \o Opt(K_SNR, snr) \o Opt(K_UTC, utc)
                       \o Opt(K_BAND, band), value).v,
    my_callsign |-> W1ABC, now |-> 7] :
     to \in ToChoices, from \in FromChoices, grid \in GridChoices,
     snr \in SnrChoices, utc \in UtcChoices, band \in BandChoices,
     value \in ValueChoices}

InitExtract == InitState /\ fn_in \in ExtractInputs /\ fn_out = NoResult

\* _process_directed(msg) with on_message and on_grid set to the callbacks
\* of the application, which put the events on its queue
ProcessDirected ==
  /\ ~fn_out.done
  /\ LET r == _process_directed(fn_in.msg, fn_in.my_callsign, fn_in.now)
     IN /\ fn_out' = [done |-> TRUE, exc |-> r.exc, events |-> r.events]
        /\ Enqueue(0, 1, r.events)
  /\ UNCHANGED <<clientVars, threadVars, sockets, mainpc, storeVars,
                 lines_sent, received, split_lines, raised, applied, last,
                 fn_in, failed_starts>>

NextExtract == ProcessDirected \/ ConsumerNext

SpecExtract == InitExtract /\ [][NextExtract]_vars

(***************************************************************************)
(* The activity snapshot on its own: RX.CALL_ACTIVITY over every table of  *)
(* up to three entries, in every order                                     *)
(***************************************************************************)
StationKeys == {K9XYZ, W2DEF, <<"_","I","D">>}

\* what a key of the table maps to: a station's table without GRID, with a
\* GRID that is empty, null, blank, a locator, a locator in blanks or a
\* number, and a value that is no table
InfoChoices ==
  {JObj(<<>>), JObj(<< <<K_GRID, JStr(<<>>)>> >>), JObj(<< <<K_GRID, JNull>> >>),
   JObj(<< <<K_GRID, JStr(<<" ">>)>> >>), JObj(<< <<K_GRID, JStr(EN61)>> >>),
   JObj(<< <<K_GRID, JStr(<<" ","E","M","4","8"," ">>)>>, <<K_SNR, JNum(-5)>> >>),
   JObj(<< <<K_GRID, JNum(5)>> >>), JNum(-1)}

\* the tables: each a sequence of pairs <<key, value>> with distinct keys
ActivityTables ==
  UNION {{tab \in [1..n -> StationKeys \X InfoChoices] :
            \A i, j \in 1..n : tab[i][1] = tab[j][1] => i = j} : n \in 0..2}
  \cup {tab \in [1..3 -> StationKeys \X InfoChoices] :
          /\ \A i, j \in 1..3 : tab[i][1] = tab[j][1] => i = j
          /\ tab[1][1] = K9XYZ}

SnapshotInputs ==
  {[msg |-> JObj(<< <<K_type, JStr(RX_CALL_ACTIVITY)>>, <<K_params, JObj(tab)>> >>),
    table |-> tab, my_callsign |-> W1ABC, now |-> 7] : tab \in ActivityTables}

InitSnapshot == InitState /\ fn_in \in SnapshotInputs /\ fn_out = NoResult

\* lines 175-187 on the snapshot, with on_grid set to the callback of the
\* application
ProcessActivity ==
  /\ ~fn_out.done
  /\ LET r == Dispatch(fn_in.msg, fn_in.my_callsign, fn_in.now)
     IN /\ fn_out' = [done |-> TRUE, exc |-> r.exc, events |-> r.events]
        /\ Enqueue(0, 1, r.events)
  /\ UNCHANGED <<clientVars, threadVars, sockets, mainpc, storeVars,
                 lines_sent, received, split_lines, raised, applied, last,
                 fn_in, failed_starts>>

NextSnapshot == ProcessActivity \/ ConsumerNext

SpecSnapshot == InitSnapshot /\ [][NextSnapshot]_vars

(***************************************************************************)
(* _parse_snr on its own, over every short string of signs, digits and a   *)
(* letter, null and numbers                                                *)
(***************************************************************************)
SnrChars == {"+", "-", "1", "2", "a"}

\* the longest report drawn
MaxSnrLen == 3

SnrTexts == UNION {[1..n -> SnrChars] : n \in 0..MaxSnrLen}

SnrInputs == {JStr(s) : s \in SnrTexts} \cup {JNull, JNum(3), JNum(-12)}

InitParseSnr == InitState /\ fn_in \in SnrInputs /\ fn_out = NoResult

\* _parse_snr(value), lines 12-19
ParseSnr ==
  /\ ~fn_out.done
  /\ fn_out' = [done |-> TRUE, exc |-> "none", events |-> <<>>,
                value |-> _parse_snr(fn_in)]
  /\ UNCHANGED <<clientVars, threadVars, sockets, msg_queue, mainpc, storeVars,
                 histVars, last, fn_in, failed_starts>>

NextParseSnr == ParseSnr

SpecParseSnr == InitParseSnr /\ [][NextParseSnr]_vars


(***************************************************************************)
(* format_snr after _parse_snr, and the two once more on the result        *)
(***************************************************************************)
ReportChars == {"+", "-", "0", "1", "2", "a"}

ReportTexts == UNION {[1..n -> ReportChars] : n \in 0..MaxSnrLen}

InitFormatSnr == InitState /\ fn_in \in {JStr(s) : s \in ReportTexts} /\ fn_out = NoResult

\* format_snr(_parse_snr(s)), database.py 16-24 on js8_client.py 12-19
FormatParsed ==
  /\ ~fn_out.done
  /\ fn_out' = [done |-> TRUE, exc |-> "none", events |-> <<>>,
                value |-> <<format_snr(JStr(_parse_snr(fn_in)))>>]
  /\ UNCHANGED <<clientVars, threadVars, sockets, msg_queue, mainpc, storeVars,
                 histVars, last, fn_in, failed_starts>>

\* the same two functions on the text displayed
FormatParsedAgain ==
  /\ fn_out.done /\ Len(fn_out.value) = 1
  /\ fn_out' = [fn_out EXCEPT !.value =
                  Append(@, format_snr(JStr(_parse_snr(JStr(@[1])))))]
  /\ UNCHANGED <<clientVars, threadVars, sockets, msg_queue, mainpc, storeVars,
                 histVars, last, fn_in, failed_starts>>

NextFormatSnr == FormatParsed \/ FormatParsedAgain

SpecFormatSnr == InitFormatSnr /\ [][NextFormatSnr]_vars

(***************************************************************************)
(* grid_to_latlon and get_adjacent_grids on their own: every locator of    *)
(* field letters A..R and two digits, and every text of up to four         *)
(* characters of a small alphabet                                          *)
(***************************************************************************)
FieldLetters == {UpperLetters[i] : i \in 1..18}

ValidGrids ==
  {<<a, b, c, d>> : a \in FieldLetters, b \in FieldLetters,
                    c \in Range(Digits), d \in Range(Digits)}

GridChars == {"A", "r", "S", "0", "9", "-", " "}

GridTexts == UNION {[1..n -> GridChars] : n \in 0..4}

InitGrid == InitState /\ fn_in \in ValidGrids \cup GridTexts /\ fn_out = NoResult

GridFrame ==
  UNCHANGED <<clientVars, threadVars, sockets, msg_queue, mainpc, storeVars,
              histVars, last, fn_in, failed_starts>>

AdjacentGrids ==
  /\ ~fn_out.done
  /\ fn_out' = [done |-> TRUE, exc |-> "none", events |-> <<>>,
                fn |-> "get_adjacent_grids", value |-> get_adjacent_grids(fn_in)]
  /\ GridFrame

GridToLatLon ==
  /\ ~fn_out.done
  /\ fn_out' = [done |-> TRUE, exc |-> "none", events |-> <<>>,
                fn |-> "grid_to_latlon", value |-> grid_to_latlon(fn_in)]
  /\ GridFrame

NextGrid == AdjacentGrids \/ GridToLatLon

SpecGrid == InitGrid /\ [][NextGrid]_vars

(***************************************************************************)
(* The queries of the store and the grid lookup of the application, after  *)
(* any calls of the store's methods                                        *)
(***************************************************************************)
EM49 == <<"E","M","4","9">>

QueryCallsigns == {K9XYZ, W2DEF}
QueryGrids == {EM48, EM49}

\* timestamp, my_snr_of_them, their_snr_of_me, band: with both reports,
\* with none (as the extractor stores it), with zero, and a row of NULLs
QueryRows ==
  {<<7, <<"-","5">>, <<"3">>, <<"4","0","m">>>>,
   <<8, <<"3">>, <<"-","2">>, <<"2","0","m">>>>,
   <<8, <<>>, <<>>, <<>>>>,
   <<9, <<"0">>, <<"0">>, <<"4","0","m">>>>,
   <<9, Null, Null, Null>>}

\* what the operator types into the lookup entry
LookupEntries == {<<"e","m","4","8"," ">>, <<"E","M">>}

QueryStoreNext ==
  \/ ~fn_out.done /\ \E c \in QueryCallsigns, row \in QueryRows : StoreAddMessage(c, row)
  \/ ~fn_out.done /\ \E c \in QueryCallsigns, g \in QueryGrids : StoreAddGrid(c, g)
  \/ ~fn_out.done /\ \E c \in QueryCallsigns, g \in QueryGrids : StoreUpdateGrid(c, g)
  \/ ~fn_out.done /\ \E ids \in SUBSET (1..MaxRows) : StoreDeleteMessages(ids)
  \/ ~fn_out.done /\ \E c \in QueryCallsigns : StoreDeleteCallsignGrid(c)
  \/ ~fn_out.done /\ \E c \in QueryCallsigns : StoreDeleteCallsignWithMessages(c)

QueryFrame ==
  UNCHANGED <<clientVars, threadVars, sockets, msg_queue, mainpc, storeVars,
              histVars, last, fn_in, failed_starts>>

\* a call of get_grids_with_snr_stats (as _refresh_grids_table makes it)
GetGridsWithSnrStats ==
  /\ ~fn_out.done
  /\ fn_out' = [done |-> TRUE, exc |-> "none", events |-> <<>>,
                fn |-> "get_grids_with_snr_stats", arg |-> <<>>,
                value |-> get_grids_with_snr_stats(callsign_grids, directed_messages)]
  /\ QueryFrame

\* a call of lookup_by_grid
LookupByGrid(grid) ==
  /\ ~fn_out.done
  /\ \E result \in lookup_by_grid(callsign_grids, directed_messages, grid) :
       fn_out' = [done |-> TRUE, exc |-> "none", events |-> <<>>,
                  fn |-> "lookup_by_grid", arg |-> grid, value |-> result]
  /\ QueryFrame

\* _do_lookup, js8_recorder.py 497-552, on an entry that is not blank: the
\* rows of lookup_tree and the counts of the status line
DoLookup(entry) ==
  /\ ~fn_out.done
  /\ \E grid \in {Upper(Strip(entry))} :
       IF Len(grid) < 4
       THEN fn_out' = [done |-> TRUE, exc |-> "none", events |-> <<>>,
                       fn |-> "_do_lookup", arg |-> entry,
                       value |-> [tree |-> <<>>, found |-> <<>>]]
       ELSE \E exact_results \in lookup_by_grid(callsign_grids, directed_messages, grid),
               unsorted \in AdjacentResults(callsign_grids, directed_messages,
                                            get_adjacent_grids(grid)) :
              \E adjacent_results \in {SortReverse(unsorted)} :
                 fn_out' =
                   [done |-> TRUE, exc |-> "none", events |-> <<>>,
                    fn |-> "_do_lookup", arg |-> entry,
                    value |->
                      [tree |-> [i \in DOMAIN exact_results |->
                                   TreeRow(exact_results[i], "exact")]
                                \o [i \in DOMAIN adjacent_results |->
                                      TreeRow(adjacent_results[i], "")],
                       found |-> <<Len(exact_results), Len(adjacent_results)>>]]
  /\ QueryFrame

QueryNext ==
  \/ GetGridsWithSnrStats
  \/ \E g \in QueryGrids : LookupByGrid(g)
  \/ \E e \in LookupEntries : DoLookup(e)

NextQuery == QueryStoreNext \/ QueryNext

SpecQuery == Init /\ [][NextQuery]_vars

(***************************************************************************)
(* The records of the store: message events whose reports are numeric,     *)
(* absent or malformed, the consumer, and the operator's calls of the      *)
(* store between two drains of the queue                                   *)
(***************************************************************************)
\* the two reports of a record: my_snr_of_them, their_snr_of_me
SnrPairs ==
  {<<<<"-","5">>, <<>>>>, <<<<>>, <<"3">>>>, <<<<"A","B">>, <<"+","0","2">>>>}

SnrRecord(callsign, snr) ==
  [callsign |-> callsign, timestamp |-> 7, my_snr_of_them |-> snr[1],
   their_snr_of_me |-> snr[2], message |-> <<"H","I">>, grid |-> <<>>]

SnrRecords ==
  {SnrRecord(K9XYZ, s) : s \in SnrPairs} \cup {SnrRecord(W2DEF, <<<<>>, <<>>>>)}

\* the handlers of the operator run on the main thread, between two runs of
\* _process_queue; the messages deleted are rows selected in the table
RecordsStoreNext ==
  \/ mainpc = "idle" /\ StoreAddGrid(K9XYZ, EM48)
  \/ mainpc = "idle" /\ StoreUpdateGrid(K9XYZ, <<>>)
  \/ mainpc = "idle" /\ \E ids \in SUBSET {directed_messages[i].id :
                                               i \in DOMAIN directed_messages} :
                           ids # {} /\ StoreDeleteMessages(ids)
  \/ mainpc = "idle" /\ StoreDeleteCallsignGrid(K9XYZ)
  \/ mainpc = "idle" /\ \E c \in CallbackCallsigns : StoreDeleteCallsignWithMessages(c)

NextRecords ==
  \/ \E record \in SnrRecords : OnMessage(record)
  \/ ConsumerNext
  \/ RecordsStoreNext

SpecRecords == Init /\ [][NextRecords]_vars

(***************************************************************************)
(* lookup_by_grid over locations stored in other spellings                 *)
(***************************************************************************)
em48 == <<"e","m","4","8">>
EM48AB == <<"E","M","4","8","A","B">>

\* the grids the location rows hold, and the grids looked up
LookupGrids == {<<>>, EM48, em48, EM48AB}
LookupArgs == {EM48, em48, <<"E","M">>}

NextLookup ==
  \/ ~fn_out.done /\ \E c \in QueryCallsigns :
                        StoreAddMessage(c, <<7, <<"3">>, <<"-","2">>, <<"4","0","m">>>>)
  \/ ~fn_out.done /\ \E c \in QueryCallsigns, g \in LookupGrids : StoreAddGrid(c, g)
  \/ ~fn_out.done /\ \E ids \in SUBSET (1..MaxRows) : StoreDeleteMessages(ids)
  \/ \E g \in LookupArgs : LookupByGrid(g)

SpecLookup == Init /\ [][NextLookup]_vars

(***************************************************************************)
(* Properties                                                              *)
(***************************************************************************)
Last(s) == s[Len(s)]

\* C1: add_grid(callsign, "") leaves an existing non-empty grid of the
\* callsign as it is and creates the row with an empty grid when it is
\* absent; add_grid(callsign, g) with a non-empty g leaves the stored grid
\* equal to g whatever it was; no other row changes.
AddGridKeepsOrSets ==
  [][last'.op = "add_grid" =>
       LET c == last'.callsign
           g == last'.grid
       IN /\ c \in DOMAIN callsign_grids'
          /\ g # <<>> => callsign_grids'[c].grid = g
          /\ (g = <<>> /\ c \in DOMAIN callsign_grids) =>
               callsign_grids'[c].grid = callsign_grids[c].grid
          /\ (g = <<>> /\ c \notin DOMAIN callsign_grids) =>
               callsign_grids'[c].grid = <<>>
          /\ \A d \in DOMAIN callsign_grids \ {c} :
               d \in DOMAIN callsign_grids' /\ callsign_grids'[d] = callsign_grids[d]
  ]_vars

\* add_grid(callsign, "") has been called on a callsign whose grid is known
AddGridEmptyOnKnownGrid ==
  /\ last.op = "add_grid" /\ last.grid = <<>>
  /\ last.callsign \in DOMAIN callsign_grids
  /\ callsign_grids[last.callsign].grid = EN61

\* C2: whatever events the consumer processes, a stored non-empty grid
\* becomes empty, while its row stays, only in a step of the operator's
\* edit, which calls update_grid with the empty grid.
OnlyEditClearsGrid ==
  [][\A c \in DOMAIN callsign_grids \cap DOMAIN callsign_grids' :
       (callsign_grids[c].grid # <<>> /\ callsign_grids'[c].grid = <<>>)
         => EditGrid(c, <<>>)
  ]_vars

\* the consumer has just processed a message event without grid, or a grid
\* event with an empty grid, for a callsign whose stored grid is not empty
EmptyGridEventOnKnownGrid ==
  /\ applied # <<>>
  /\ LET e == Last(applied)
         c == IF e.type = "message" THEN e.data.callsign
              ELSE IF e.type = "grid" THEN e.data[1] ELSE <<>>
         g == IF e.type = "message" THEN e.data.grid
              ELSE IF e.type = "grid" THEN e.data[2] ELSE <<"?">>
     IN /\ g = <<>>
        /\ c \in DOMAIN callsign_grids
        /\ callsign_grids[c].grid # <<>>

IsDisconnected(e) == e.type = "status" /\ e.data = "Disconnected"

DisconnectedBy(t) ==
  Cardinality({i \in DOMAIN emitted :
                 emitted[i].thread = t /\ IsDisconnected(emitted[i].event)})

\* C3: when a run has ended, on whatever path, it has emitted the status
\* "Disconnected" exactly once, and when every run has ended every socket
\* the client made is closed.
EveryExitDisconnects ==
  /\ \A t \in DOMAIN pc : pc[t] = "done" => DisconnectedBy(t) = 1
  /\ (\A t \in DOMAIN pc : pc[t] = "done") =>
       \A s \in DOMAIN sockets : sockets[s].state = "closed"

\* lines the protocol tolerance is about: no JSON, blank, a JSON value with
\* an unknown type or with none, a notification with no optional field
ToleratedLines == {T_Junk, T_Blank, T_Ping, T_NoType, T_Array, T_Null, T_NoFrom}

\* C4: the step that dispatches a tolerated line emits no error event and
\* leaves the receive thread in its loop, ready for the next line.
ToleratedLineIsAbsorbed ==
  [][\A t \in DOMAIN pc :
       (Len(split_lines'[t]) > Len(split_lines[t])
          /\ Last(split_lines'[t]) \in ToleratedLines)
       => /\ pc'[t] = "lines"
          /\ \A i \in (Len(emitted) + 1)..Len(emitted') :
               emitted'[i].event.type # "error"
  ]_vars

\* the complete lines of a byte stream: the text before each newline
RECURSIVE CompleteLines(_)
CompleteLines(bytes) ==
  LET i == Find(bytes, <<Newline>>)
  IN IF i = 0 THEN <<>>
     ELSE <<Decode(SubSeq(bytes, 1, i - 1)).s>>
          \o CompleteLines(SubSeq(bytes, i + 1, Len(bytes)))

\* the lines dispatched are the complete lines of the bytes received
FramedAsReceived(t) ==
  pc[t] \in {"loop", "recv"} => split_lines[t] = CompleteLines(received[t])

\* C5: however the reads cut the stream, no read fails on the place of the
\* cut, and once a read is processed the lines dispatched are exactly the
\* newline-terminated lines received so far, each once and in order.
FramingIgnoresChunks ==
  \A t \in DOMAIN pc :
    /\ raised[t] # "UnicodeDecodeError"
    /\ FramedAsReceived(t)


EventEq(a, b) == a.type = b.type /\ a.data = b.data

IsLineEvent(e) == e.event.type \in {"message", "grid"}

\* the events a step has emitted
NewEvents == SubSeq(emitted', Len(emitted) + 1, Len(emitted'))

\* a step of thread t that dispatches a line emits the events of that line,
\* in the order _process_directed and the snapshot loop make them; any
\* other step emits no message and no grid event for t
LineStepEmits(t) ==
  IF Len(split_lines'[t]) > Len(split_lines[t])
  THEN \E now \in Times :
         \E ev \in {DispatchLine(Last(split_lines'[t]), my_callsign, now).events} :
            /\ Len(NewEvents) = Len(ev)
            /\ \A i \in DOMAIN ev :
                 /\ EventEq(NewEvents[i].event, ev[i])
                 /\ NewEvents[i].thread = t
                 /\ NewEvents[i].line = Len(split_lines'[t])
  ELSE \A i \in DOMAIN NewEvents :
         NewEvents[i].thread = t => ~IsLineEvent(NewEvents[i])

AppliedMessages ==
  LET IsMessage(e) == e.type = "message"
  IN SelectSeq(applied, IsMessage)

\* the consumer has applied, and still holds in its queue, the events in
\* the order they were emitted; the rows stored are the message events
\* applied, in that order
QueueInOrder ==
  /\ Len(applied) + Len(msg_queue) = Len(emitted)
  /\ \A i \in DOMAIN applied : EventEq(applied[i], emitted[i].event)
  /\ \A i \in DOMAIN msg_queue :
       EventEq(msg_queue[i], emitted[Len(applied) + i].event)
  /\ Len(directed_messages) = Len(AppliedMessages)
  /\ \A i \in DOMAIN directed_messages :
       /\ directed_messages[i].id = i
       /\ directed_messages[i].callsign = AppliedMessages[i].data.callsign
       /\ directed_messages[i].message = AppliedMessages[i].data.message

\* C6: every step adds its events at the end of those emitted before, the
\* step that dispatches line n of a session adds the events of line n and
\* no other step adds a message or grid event, so the events follow the
\* order of the lines; the consumer applies them to the store in the order
\* they were emitted.
EventsInLineOrder ==
  /\ []QueueInOrder
  /\ [][\/ UNCHANGED <<emitted, split_lines>>
        \/ /\ Len(emitted') >= Len(emitted)
           /\ SubSeq(emitted', 1, Len(emitted)) = emitted
           /\ \A t \in DOMAIN pc : LineStepEmits(t)]_vars

\* the consumer has applied events of the first line and of the second
TwoLinesApplied ==
  \E i, j \in DOMAIN applied :
    /\ i < j
    /\ IsLineEvent(emitted[i]) /\ emitted[i].line = 1
    /\ IsLineEvent(emitted[j]) /\ emitted[j].line = 2

ParamsOf(in) == Get(in.msg, K_params, JObj(<<>>)).v
ToOf(in) == Get(ParamsOf(in), K_TO, JStr(<<>>))
FromOf(in) == Get(ParamsOf(in), K_FROM, JStr(<<>>))
GridOf(in) == Get(ParamsOf(in), K_GRID, JStr(<<>>))
ValueOf(in) == Get(in.msg, K_value, JStr(<<>>)).v

AddressedToMe ==
  ToOf(fn_in).t = "str" /\ Upper(ToOf(fn_in).v) = Upper(fn_in.my_callsign)

\* C7: with an operator callsign configured, a notification whose TO is
\* not that callsign, whatever the case of its letters, raises no event and
\* leaves the store empty.
OtherStationDropped ==
  (fn_out.done /\ fn_in.my_callsign # <<>> /\ ~AddressedToMe) =>
     /\ Len(fn_out.events) = 0
     /\ Len(emitted) = 0 /\ Len(msg_queue) = 0
     /\ Len(directed_messages) = 0 /\ DOMAIN callsign_grids = {}

\* the notification of the scenario, addressed to W2DEF, has been processed
OtherStationProcessed ==
  /\ fn_out.done
  /\ ToOf(fn_in) = JStr(W2DEF) /\ FromOf(fn_in) = JStr(K9XYZ)
  /\ GridOf(fn_in) = JStr(EN61)

SenderKnown == FromOf(fn_in).t = "str" /\ FromOf(fn_in).v # <<>>

\* C8: a notification addressed to the operator with a non-empty sender
\* raises one message event, followed by the grid event (sender, grid) when
\* the trimmed grid is not empty and by nothing when it is.
OneMessageThenGrid ==
  (fn_out.done /\ AddressedToMe /\ SenderKnown) =>
     LET ev == fn_out.events
         from == FromOf(fn_in).v
         grid == Strip(GridOf(fn_in).v)
     IN /\ Len(ev) >= 1
        /\ ev[1].type = "message" /\ ev[1].data.callsign = from
        /\ IF grid # <<>>
           THEN Len(ev) = 2 /\ ev[2].type = "grid" /\ ev[2].data = <<from, grid>>
           ELSE Len(ev) = 1

\* the first whitespace-delimited token after the first SNR of the text
TokenAfterSNR(value) ==
  LET u == Upper(value)
      i == Find(u, K_SNR)
      toks == IF i = 0 THEN <<>> ELSE SplitWs(SubSeq(u, i + 3, Len(u)))
  IN IF toks = <<>> THEN <<>> ELSE toks[1]

\* the report a token stands for: a signed integer, or nothing
ReportOf(tok) ==
  LET signed == tok # <<>> /\ tok[1] \in {"+", "-"}
      body == IF signed THEN Tail(tok) ELSE tok
  IN IF body # <<>> /\ \A i \in DOMAIN body : IsDigit(body[i])
     THEN IntToStr(IF signed /\ tok[1] = "-"
                   THEN 0 - DigitsValue(body) ELSE DigitsValue(body))
     ELSE <<>>

\* C9: the record's their_snr_of_me is the report of the first token after
\* SNR in the text, and is absent when there is no SNR or the token is no
\* number; the scenario's notification gives callsign K9XYZ, reports -5 and
\* 1, and the grid event (K9XYZ, EN61).
SnrIsTokenAfterSNR ==
  /\ (fn_out.done /\ Len(fn_out.events) > 0) =>
        fn_out.events[1].data.their_snr_of_me = ReportOf(TokenAfterSNR(ValueOf(fn_in)))
  /\ (fn_out.done /\ fn_in.msg = V_Scenario.v) =>
        /\ Len(fn_out.events) = 2
        /\ fn_out.events[1].data.callsign = K9XYZ
        /\ fn_out.events[1].data.my_snr_of_them = <<"-", "5">>
        /\ fn_out.events[1].data.their_snr_of_me = <<"1">>
        /\ fn_out.events[2].type = "grid"
        /\ fn_out.events[2].data = <<K9XYZ, EN61>>

Normalized(callsign) == callsign # <<>> /\ callsign = Upper(callsign)

\* C10: the callsign of every record emitted and of every row stored is
\* not empty and is in upper case.
CallsignNormalized ==
  /\ \A i \in DOMAIN emitted :
       emitted[i].event.type = "message" => Normalized(emitted[i].event.data.callsign)
  /\ \A i \in DOMAIN directed_messages : Normalized(directed_messages[i].callsign)


IsError(e, text) == e.type = "error" /\ e.data = text

\* C11: a call of start() on a client that is not running and has no
\* callsign returns False, puts the one error "Callsign is required" on the
\* queue within the call, on the caller's thread, creates no thread and no
\* socket, and leaves running False.
StartWithoutCallsignFails ==
  [][(Start /\ ~running /\ my_callsign = <<>>) =>
       /\ failed_starts' = failed_starts + 1
       /\ Len(emitted') = Len(emitted) + 1
       /\ Last(emitted').thread = 0
       /\ IsError(Last(emitted').event, "Callsign is required")
       /\ Len(msg_queue') = Len(msg_queue) + 1
       /\ IsError(Last(msg_queue'), "Callsign is required")
       /\ pc' = pc /\ thread' = thread
       /\ sockets' = sockets /\ sock' = sock
       /\ running' = FALSE
  ]_vars

\* start() has been refused for want of a callsign
StartRefused ==
  /\ failed_starts = 1 /\ my_callsign = <<>>
  /\ Len(emitted) = 1 /\ IsError(emitted[1].event, "Callsign is required")
  /\ pc = <<>> /\ ~running


\* the handler of a transport error runs on thread t: lines 79-82 after a
\* failed connect, lines 191-195 after a failed read
TransportErrorStep(t) ==
  pc[t] \in {"connect_error", "recv_error"} /\ pc'[t] # pc[t]

\* C12: a transport error handled while no stop is requested raises exactly
\* one error event, one handled after stop() was requested raises no event,
\* in the connect phase as in the receive loop; either way the run goes to
\* its end.
TransportErrorReportedUnlessStopped ==
  [][\A t \in DOMAIN pc : TransportErrorStep(t) =>
       /\ pc'[t] \in {"connect_failed", "finish"}
       /\ IF StopRequested
          THEN Len(NewEvents) = 0
          ELSE /\ Len(NewEvents) = 1
               /\ NewEvents[1].thread = t
               /\ NewEvents[1].event.type = "error"
  ]_vars




\* thread t has emitted an error event
ErrorBy(t) ==
  \E i \in DOMAIN emitted :
    emitted[i].thread = t /\ emitted[i].event.type = "error"

\* thread t leaves its run after a failure: line 150 or line 197
FailedRunEnds(t) ==
  ErrorBy(t) /\ pc[t] \in {"connect_failed", "finish"} /\ pc'[t] # pc[t]

\* a call of start() on a client that is not running and has a callsign
StartOfIdle ==
  /\ Start \/ \E entry \in CallsignEntries : StartListening(entry)
  /\ ~running /\ my_callsign' # <<>>

\* C13: a failed connect or a failed read is reported as one error event and
\* ends the run it happened in and nothing else: the thread returns from
\* _run without an exception, the flag it clears is that of its own run, no
\* run makes a second socket, and the next start() begins a fresh run.
FailureEndsOnlyTheRun ==
  /\ [](/\ Len(sockets) <= Len(pc)
        /\ \A t \in DOMAIN pc : ErrorBy(t) =>
             /\ pc[t] \in {"connect_failed", "finish", "close",
                           "disconnected", "done"}
             /\ raised[t] = "none")
  /\ [][\A t \in DOMAIN pc : TransportErrorStep(t) /\ ~StopRequested =>
          /\ Len(NewEvents) = 1
          /\ NewEvents[1].thread = t
          /\ NewEvents[1].event.type = "error"
       ]_vars
  /\ [][\A t \in DOMAIN pc : FailedRunEnds(t) =>
          /\ ~running'
          /\ thread = t \/ running' = running
       ]_vars
  /\ [][StartOfIdle =>
          /\ running'
          /\ Len(pc') = Len(pc) + 1 /\ thread' = Len(pc')
          /\ pc'[thread'] = "connect" /\ buffer'[thread'] = <<>>
          /\ sockets' = sockets
       ]_vars


\* the run of thread t has been told to close: stop() has been called on it,
\* it has read the end of the stream, or a transport error has occurred
Closing(t) ==
  /\ t \in DOMAIN pc /\ IsAlive(t)
  /\ \/ mainpc \in {"stopping", "joining"} /\ thread = t
     \/ pc[t] \in {"eof", "connect_error", "recv_error"}

\* thread t has returned from _run
Exited(t) == t \in DOMAIN pc /\ ~IsAlive(t)

\* C14: a run that stop(), the end of the stream or a transport error has
\* told to close comes to the end of its thread, and the listener to running
\* False; a run makes one socket at most, and running becomes True by a
\* start() that creates a thread and by nothing else.
ClosingReturnsToIdle ==
  /\ \A t \in 1..MaxThreads : Closing(t) ~> Exited(t)
  /\ \A t \in 1..MaxThreads : Closing(t) ~> ~running
  /\ [](Len(sockets) <= Len(pc))
  /\ [][~running /\ running' => StartOfIdle /\ Len(pc') = Len(pc) + 1]_vars


\* a step of a call of stop() that follows another call of stop()
FurtherStopStep ==
  /\ StopFlag \/ StopClose \/ StopJoin
  /\ last'.op = "stop_again"

\* C15: stop() can be called in every state of the listener, and a call of
\* stop() that follows another call of stop() changes nothing of the
\* listener: not the flag, not a socket, not a thread, and it emits no event.
StopIsIdempotent ==
  /\ [](mainpc = "idle" => ENABLED StopFlag)
  /\ [][FurtherStopStep =>
          /\ running' = running /\ sock' = sock /\ thread' = thread
          /\ sockets' = sockets
          /\ pc' = pc /\ buffer' = buffer
          /\ emitted' = emitted /\ msg_queue' = msg_queue
       ]_vars


SnrOf(in) == Get(ParamsOf(in), K_SNR, JStr(<<>>))
UtcOf(in) == Get(ParamsOf(in), K_UTC, JStr(<<>>))

\* C16: for a notification addressed to the operator the message event is
\* emitted whatever the SNR field, the text and the UTC field hold: a
\* report that is no signed integer leaves its SNR absent, and a UTC that
\* is absent or no number gives the record the current time.
HeuristicsNeverAbort ==
  (fn_out.done /\ AddressedToMe) =>
     /\ fn_out.exc = "none"
     /\ Len(fn_out.events) >= 1 /\ fn_out.events[1].type = "message"
     /\ LET record == fn_out.events[1].data
        IN /\ ReportOf(PyStr(SnrOf(fn_in))) = <<>> =>
                record.my_snr_of_them = <<>>
           /\ ReportOf(TokenAfterSNR(ValueOf(fn_in))) = <<>> =>
                record.their_snr_of_me = <<>>
           /\ UtcOf(fn_in).t # "num" => record.timestamp = fn_in.now


BandOf(in) == Get(ParamsOf(in), K_BAND, JStr(<<>>))

\* C17: the record of an accepted notification carries the notification's
\* band label, and so does the row stored from it; without a label the band
\* of both is empty.
BandCarriedThrough ==
  (fn_out.done /\ Len(fn_out.events) > 0) =>
     /\ RecordGet(fn_out.events[1].data, "band", <<>>) = BandOf(fn_in).v
     /\ Len(directed_messages) > 0 =>
          directed_messages[1].band = BandOf(fn_in).v


\* C18: the step of the consumer that handles a message event for a
\* callsign leaves a callsign_grids row for it: the row there was, or a new
\* one, which has an empty grid when the message carried none.
MessageLeavesGridRow ==
  [][(ProcessQueueItem /\ Head(msg_queue).type = "message") =>
       \E c \in {Head(msg_queue).data.callsign} :
          /\ c \in DOMAIN callsign_grids'
          /\ \A d \in DOMAIN callsign_grids : d \in DOMAIN callsign_grids'
          /\ (c \notin DOMAIN callsign_grids /\ Head(msg_queue).data.grid = <<>>)
               => callsign_grids'[c].grid = <<>>
          /\ Last(directed_messages').callsign = c
  ]_vars

\* a message without a grid, from a callsign that had no row, has been
\* handled: the callsign has a row with an empty grid
RowCreatedWithoutGrid ==
  /\ Len(applied) = 1 /\ applied[1].type = "message"
  /\ applied[1].data.grid = <<>>
  /\ applied[1].data.callsign \in DOMAIN callsign_grids
  /\ callsign_grids[applied[1].data.callsign].grid = <<>>


\* the entry is a station's table with a GRID that is a string
GridIsText(entry) ==
  /\ entry[2].t = "obj" /\ K_GRID \in DOMAIN entry[2].v
  /\ entry[2].v[K_GRID].t = "str"

\* the entry carries a non-empty grid field
HasGrid(entry) == GridIsText(entry) /\ Len(entry[2].v[K_GRID].v) > 0

\* no entry of the table has a GRID that is a number
GridsAreText(table) ==
  \A i \in DOMAIN table :
    (table[i][2].t = "obj" /\ K_GRID \in DOMAIN table[i][2].v) =>
       table[i][2].v[K_GRID].t \in {"str", "null"}

SignedReport(s) ==
  LET rest == IF s # <<>> /\ s[1] = "+" THEN Tail(s) ELSE s
      r == PyInt(rest)
  IN IF r.ok /\ \A i \in DOMAIN rest : rest[i] # "+"
     THEN IntToStr(r.n) ELSE <<>>

\* C20: _parse_snr returns the integer read from its input after one
\* optional leading '+', and nothing for null, for the empty string and for
\* an input that is no such integer, a '+' elsewhere included; it raises
\* nothing.
ParseSnrStripsLeadingPlus ==
  fn_out.done =>
     /\ fn_out.exc = "none"
     /\ fn_out.value = (IF fn_in.t = "null" THEN <<>>
                        ELSE SignedReport(PyStr(fn_in)))


\* a report that matches ^[+-]?\d+$
WellFormedReport(s) ==
  LET d == IF s # <<>> /\ s[1] \in {"+", "-"} THEN Tail(s) ELSE s
  IN d # <<>> /\ \A i \in DOMAIN d : IsDigit(d[i])

RECURSIVE DropZeros(_)
DropZeros(d) == IF d # <<>> /\ d[1] = "0" THEN DropZeros(Tail(d)) ELSE d

\* the display form of a well-formed report: its sign written out ('+'
\* for zero), its digits without leading zeros, padded to two
NormalizedForm(s) ==
  LET signed == s[1] \in {"+", "-"}
      d == DropZeros(IF signed THEN Tail(s) ELSE s)
  IN IF d = <<>> THEN <<"+", "0", "0">>
     ELSE <<IF s[1] = "-" THEN "-" ELSE "+">> \o
          (IF Len(d) < 2 THEN <<"0">> \o d ELSE d)

\* C21: for a well-formed report s, format_snr(_parse_snr(s)) is the
\* display form of s (explicit sign, at least two digits), and parsing and
\* formatting that result once more returns it unchanged.
RoundTripNormalizes ==
  (fn_out.done /\ WellFormedReport(fn_in.v)) =>
     /\ fn_out.value[1] = NormalizedForm(fn_in.v)
     /\ Len(fn_out.value) = 2 => fn_out.value[2] = fn_out.value[1]

\* the report "+2" displayed as "+02", and displayed again
RoundTripOfPlusTwo ==
  /\ fn_in = JStr(<<"+", "2">>)
  /\ fn_out.done /\ fn_out.value = << <<"+","0","2">>, <<"+","0","2">> >>


\* a locator of two field letters A..R and two digits
IsLocator(g) ==
  /\ Len(g) = 4
  /\ g[1] \in FieldLetters /\ g[2] \in FieldLetters
  /\ IsDigit(g[3]) /\ IsDigit(g[4])

\* the column and the row of a locator's square, counted over the globe
Column(g) == 10 * ((CHOOSE i \in 1..18 : UpperLetters[i] = g[1]) - 1) + DigitValue(g[3])
Row(g) == 10 * ((CHOOSE i \in 1..18 : UpperLetters[i] = g[2]) - 1) + DigitValue(g[4])

\* h is one step away from g: one column or none, one row or none, not none of both
OneStep(g, h) ==
  /\ Column(h) - Column(g) \in {-1, 0, 1}
  /\ Row(h) - Row(g) \in {-1, 0, 1}
  /\ h # g

AdjacentOf(g) == fn_in = g /\ fn_out.done /\ fn_out.fn = "get_adjacent_grids"

\* C22: for a valid 4-character grid get_adjacent_grids returns at most 8
\* locators, pairwise distinct, none the input, each a valid locator one
\* step away from the input in column and row, the square digit carried
\* into the field letter.
AdjacentAreNeighbours ==
  (fn_out.done /\ fn_out.fn = "get_adjacent_grids" /\ IsLocator(fn_in)) =>
     \E adj \in {fn_out.value} :
        /\ Len(adj) <= 8
        /\ \A i, j \in DOMAIN adj : i # j => adj[i] # adj[j]
        /\ \A i \in DOMAIN adj :
              adj[i] # fn_in /\ IsLocator(adj[i]) /\ OneStep(fn_in, adj[i])

\* the neighbours of EM49, among them EN40 across the field boundary
AdjacentOfEM49 ==
  /\ AdjacentOf(<<"E","M","4","9">>)
  /\ Len(fn_out.value) = 8
  /\ \E i \in DOMAIN fn_out.value : fn_out.value[i] = <<"E","N","4","0">>

\* C23: get_adjacent_grids drops the neighbours beyond the outer fields
\* instead of wrapping: it returns every locator one step away, which makes
\* 8 for an interior grid, 5 on one outer edge and 3 at a corner.
AdjacentCountByEdge ==
  (fn_out.done /\ fn_out.fn = "get_adjacent_grids" /\ IsLocator(fn_in)) =>
     \E edges \in {(IF Column(fn_in) \in {0, 179} THEN 1 ELSE 0)
                   + (IF Row(fn_in) \in {0, 179} THEN 1 ELSE 0)} :
        /\ Len(fn_out.value) = (CASE edges = 0 -> 8 [] edges = 1 -> 5 [] edges = 2 -> 3)
        /\ \A i \in DOMAIN fn_out.value :
              /\ Column(fn_out.value[i]) - Column(fn_in) \in {-1, 0, 1}
              /\ Row(fn_out.value[i]) - Row(fn_in) \in {-1, 0, 1}

\* the corner AA00 with its three neighbours
AdjacentOfCorner ==
  /\ AdjacentOf(<<"A","A","0","0">>)
  /\ fn_out.value = << <<"A","A","0","1">>, <<"A","A","1","0">>, <<"A","A","1","1">> >>


\* at least four characters, two field letters of either case, two digits
WellFormedGrid(g) ==
  /\ Len(g) >= 4
  /\ UpperChar(g[1]) \in FieldLetters /\ UpperChar(g[2]) \in FieldLetters
  /\ IsDigit(g[3]) /\ IsDigit(g[4])

\* C24: grid_to_latlon returns None for every malformed input (under four
\* characters, a first or second character that is no field letter, a
\* third or fourth that is no digit) and the centre of the square for a
\* valid one: lon = 20*field - 180 + 2*square + 1, lat = 10*field - 90 +
\* square + 0.5.
MalformedGridHasNoCentre ==
  (fn_out.done /\ fn_out.fn = "grid_to_latlon") =>
     IF WellFormedGrid(fn_in)
     THEN \E g \in {Upper(fn_in)} :
            fn_out.value =
              [none |-> FALSE,
               lon |-> 20 * (Column(g) \div 10) - 180 + 2 * (Column(g) % 10) + 1,
               lat2 |-> 2 * (10 * (Row(g) \div 10) - 90 + (Row(g) % 10)) + 1]
     ELSE fn_out.value.none


StatsReturned == fn_out.done /\ fn_out.fn = "get_grids_with_snr_stats"

\* the ContactRecords of a callsign now in the store
RecordsOf(callsign) ==
  {i \in DOMAIN directed_messages : directed_messages[i].callsign = callsign}

\* C25: get_grids_with_snr_stats does not fail and returns one row per row
\* of callsign_grids, in ascending order of callsign; the row of a
\* callsign without ContactRecords has null maxima and minima, a null last
\* contact and the count 0.
StatsRowPerLocation ==
  StatsReturned =>
     \E stats \in {fn_out.value} :
        /\ fn_out.exc = "none"
        /\ Len(stats) = Cardinality(DOMAIN callsign_grids)
        /\ {stats[i].callsign : i \in DOMAIN stats} = DOMAIN callsign_grids
        /\ \A i, j \in DOMAIN stats :
              i < j => StrLess(stats[i].callsign, stats[j].callsign)
        /\ \A i \in DOMAIN stats :
              /\ stats[i].grid = callsign_grids[stats[i].callsign].grid
              /\ RecordsOf(stats[i].callsign) = {} =>
                    /\ stats[i].max_my_snr = JNull /\ stats[i].min_my_snr = JNull
                    /\ stats[i].max_their_snr = JNull /\ stats[i].min_their_snr = JNull
                    /\ stats[i].last_contact = JNull
                    /\ stats[i].contact_count = 0

\* two callsigns with a location, the first of them without any record
StatsOfCallsignWithoutRecords ==
  /\ StatsReturned /\ Len(fn_out.value) = 2
  /\ fn_out.value[1].callsign = K9XYZ /\ fn_out.value[1].contact_count = 0
  /\ fn_out.value[2].callsign = W2DEF /\ fn_out.value[2].contact_count = 1


\* the signal reports a column holds: the integers of the rows that carry
\* one, an absent report ('' or NULL) being no value
ReportsIn(rows, column) ==
  {PyInt(directed_messages[i][column]).n :
     i \in {j \in rows : /\ directed_messages[j][column] \notin {Null, <<>>}
                         /\ PyInt(directed_messages[j][column]).ok}}

\* the band labels of the rows, an absent band ('' or NULL) being none
BandsIn(rows) == {directed_messages[i].band : i \in rows} \ {Null, <<>>}

\* C26: after any calls of add_message, add_grid, update_grid,
\* delete_messages, delete_callsign_grid and delete_callsign_with_messages
\* the statistics returned for a callsign are the maximum and the minimum
\* of the reports, the number, the band labels and the latest timestamp of
\* the ContactRecords of that callsign now in the store.
StatsReflectCurrentRows ==
  StatsReturned =>
     \A i \in DOMAIN fn_out.value :
        \E s \in {fn_out.value[i]}, rows \in {RecordsOf(fn_out.value[i].callsign)} :
           /\ s.max_my_snr = SqlMax(ReportsIn(rows, "my_snr_of_them"))
           /\ s.min_my_snr = SqlMin(ReportsIn(rows, "my_snr_of_them"))
           /\ s.max_their_snr = SqlMax(ReportsIn(rows, "their_snr_of_me"))
           /\ s.min_their_snr = SqlMin(ReportsIn(rows, "their_snr_of_me"))
           /\ s.contact_count = Cardinality(rows)
           /\ (IF s.bands = JNull THEN {} ELSE s.bands.v \ {<<>>}) = BandsIn(rows)
           /\ s.last_contact = SqlMax({directed_messages[r].timestamp : r \in rows})


\* the average of the reports a callsign's ContactRecords carry in
\* their_snr_of_me, as sum and number; the number is 0 when none carries one
AverageTheirSnr(callsign) ==
  LET rows == {j \in RecordsOf(callsign) :
                 /\ directed_messages[j].their_snr_of_me \notin {Null, <<>>}
                 /\ PyInt(directed_messages[j].their_snr_of_me).ok}
      RECURSIVE Sum(_)
      Sum(S) == IF S = {} THEN 0
                ELSE LET j == CHOOSE j \in S : TRUE
                     IN PyInt(directed_messages[j].their_snr_of_me).n + Sum(S \ {j})
  IN [sum |-> Sum(rows), n |-> Cardinality(rows)]

\* average a is higher than average b; no average (null) is below every one
Higher(a, b) ==
  /\ a.n # 0
  /\ b.n = 0 \/ a.sum * b.n > b.sum * a.n

LookupReturned == fn_out.done /\ fn_out.fn = "lookup_by_grid"

\* C27: lookup_by_grid returns the callsigns of the grid in descending
\* order of their average theirSnrOfMe, those without an average last: of
\* two callsigns returned the one with the higher average comes first.
LookupOrderedByAverage ==
  LookupReturned =>
     \A i, j \in DOMAIN fn_out.value :
        Higher(AverageTheirSnr(fn_out.value[i].callsign),
               AverageTheirSnr(fn_out.value[j].callsign)) => i < j


DoLookupReturned == fn_out.done /\ fn_out.fn = "_do_lookup" /\ fn_out.value.found # <<>>

\* C28: in the neighbourhood search every match of the query grid itself
\* is listed before every match of an adjacent grid, and of two matches of
\* adjacent grids the one with the higher average theirSnrOfMe comes
\* first, those without an average last, whatever the averages are
\* (positive, zero, negative, null).
NeighbourhoodOrdered ==
  DoLookupReturned =>
     \E tree \in {fn_out.value.tree}, grid \in {Upper(Strip(fn_out.arg))} :
        \A i, j \in DOMAIN tree :
           /\ (tree[i].grid = grid /\ tree[j].grid # grid) => i < j
           /\ (/\ tree[i].grid # grid /\ tree[j].grid # grid
               /\ Higher(AverageTheirSnr(tree[i].callsign),
                         AverageTheirSnr(tree[j].callsign))) => i < j


\* the ids and the callsigns the rows of directed_messages hold
StoredIds == {directed_messages[i].id : i \in DOMAIN directed_messages}
StoredCallsigns == {directed_messages[i].callsign : i \in DOMAIN directed_messages}

TablesUnchanged ==
  callsign_grids' = callsign_grids /\ directed_messages' = directed_messages

\* C29: delete_messages with ids none of which is stored (or with no id),
\* delete_callsign_grid with a callsign that has no location row and
\* delete_callsign_with_messages with a callsign that has neither a row nor
\* a record leave both tables as they were.
DeleteOfNothingChangesNothing ==
  [][/\ (last'.op = "delete_messages" /\ last'.ids \cap StoredIds = {})
          => TablesUnchanged
     /\ (last'.op = "delete_callsign_grid"
         /\ last'.callsign \notin DOMAIN callsign_grids) => TablesUnchanged
     /\ (/\ last'.op = "delete_callsign_with_messages"
         /\ last'.callsign \notin DOMAIN callsign_grids
         /\ last'.callsign \notin StoredCallsigns) => TablesUnchanged
  ]_vars

\* delete_messages has been called with the id 2, which no row has held
\* yet, on a store of one record and one location
DeleteOfUnknownId ==
  /\ last.op = "delete_messages" /\ last.ids = {2}
  /\ next_id = 2 /\ Len(directed_messages) = 1 /\ directed_messages[1].id = 1
  /\ DOMAIN callsign_grids = {K9XYZ}

\* C30: delete_callsign_with_messages(c) removes the location row of c and
\* every ContactRecord of c and leaves the rows of every other callsign as
\* they were; delete_callsign_grid(c) removes the location row of c alone
\* and leaves every ContactRecord, those of c included, as it was.
DeleteCascadesOnlyOnRequest ==
  [][/\ last'.op = "delete_callsign_with_messages" =>
          \E c \in {last'.callsign} :
             /\ DOMAIN callsign_grids' = DOMAIN callsign_grids \ {c}
             /\ \A d \in DOMAIN callsign_grids' : callsign_grids'[d] = callsign_grids[d]
             /\ \A i \in DOMAIN directed_messages' : directed_messages'[i].callsign # c
             /\ \A i \in DOMAIN directed_messages :
                   directed_messages[i].callsign # c =>
                      \E j \in DOMAIN directed_messages' :
                         directed_messages'[j] = directed_messages[i]
             /\ Len(directed_messages')
                  = Cardinality({i \in DOMAIN directed_messages :
                                   directed_messages[i].callsign # c})
     /\ last'.op = "delete_callsign_grid" =>
          \E c \in {last'.callsign} :
             /\ DOMAIN callsign_grids' = DOMAIN callsign_grids \ {c}
             /\ \A d \in DOMAIN callsign_grids' : callsign_grids'[d] = callsign_grids[d]
             /\ directed_messages' = directed_messages
  ]_vars

\* K9XYZ has been deleted with its messages: the record and the location
\* of W2DEF are what is left
DeletedWithMessages ==
  /\ last.op = "delete_callsign_with_messages" /\ last.callsign = K9XYZ
  /\ next_id = 3 /\ Len(directed_messages) = 1
  /\ directed_messages[1].callsign = W2DEF /\ directed_messages[1].id = 2
  /\ DOMAIN callsign_grids = {W2DEF}

\* C31: every message event the consumer processes appends exactly one row
\* that holds the event's callsign, timestamp, reports and text as they were
\* provided (a report that is absent or no number included) under an id no
\* row holds; no step changes a field of a stored row; and a row leaves
\* directed_messages only in a call of delete_messages that names its id or
\* of delete_callsign_with_messages that names its callsign.
RecordsAppendOnly ==
  [][/\ (applied' # applied /\ Last(applied').type = "message") =>
          \E data \in {Last(applied').data} :
             /\ Len(directed_messages') = Len(directed_messages) + 1
             /\ SubSeq(directed_messages', 1, Len(directed_messages))
                  = directed_messages
             /\ \E row \in {Last(directed_messages')} :
                   /\ row.id \notin StoredIds
                   /\ row.callsign = data.callsign
                   /\ row.timestamp = data.timestamp
                   /\ row.my_snr_of_them = data.my_snr_of_them
                   /\ row.their_snr_of_me = data.their_snr_of_me
                   /\ row.message = data.message
     /\ \A j \in DOMAIN directed_messages' :
          directed_messages'[j].id \in StoredIds =>
             \E i \in DOMAIN directed_messages :
                directed_messages[i] = directed_messages'[j]
     /\ \A i \in DOMAIN directed_messages :
          \/ \E j \in DOMAIN directed_messages' :
                directed_messages'[j] = directed_messages[i]
          \/ /\ applied' = applied
             /\ last'.op = "delete_messages"
             /\ directed_messages[i].id \in last'.ids
          \/ /\ applied' = applied
             /\ last'.op = "delete_callsign_with_messages"
             /\ directed_messages[i].callsign = last'.callsign
  ]_vars

\* the record whose report of the station is "AB" is stored as it came,
\* after the record before it was deleted
MalformedReportStored ==
  /\ Len(applied) = 2 /\ last.op = "delete_messages" /\ last.ids = {1}
  /\ Len(directed_messages) = 1
  /\ directed_messages[1].id = 2
  /\ directed_messages[1].my_snr_of_them = <<"A","B">>
  /\ directed_messages[1].their_snr_of_me = <<"+","0","2">>

\* the snapshot requests that went out on the socket receive thread t
\* connected
RequestsOf(t) == sockets[SocketOf(t)].sent

\* receive thread t has emitted the event e
EmittedBy(t, e) ==
  \E i \in DOMAIN emitted : emitted[i].thread = t /\ emitted[i].event = e

\* receive thread t is at a read of its receive loop or has made one
HasRead(t) ==
  pc[t] \in {"recv", "lines", "eof", "recv_error"} \/ received[t] # <<>>

\* C32: a connection carries the snapshot request RX.GET_CALL_ACTIVITY once
\* at most and nothing else; a run whose connect failed has sent none; and
\* a run that is at the first read of its receive loop, or past it, has sent
\* the request on its connection.
SnapshotRequestedOnce ==
  /\ \A s \in DOMAIN sockets :
       sockets[s].sent \in {<<>>, <<RX_GET_CALL_ACTIVITY>>}
  /\ \A t \in DOMAIN pc :
       /\ pc[t] \in {"connect", "connecting", "connect_error", "connect_failed"}
            => \A s \in DOMAIN sockets : sockets[s].owner = t => sockets[s].sent = <<>>
       /\ EmittedBy(t, ErrorEvent("Connection failed"))
            => RequestsOf(t) = <<>>
       /\ HasRead(t) => RequestsOf(t) = <<RX_GET_CALL_ACTIVITY>>

\* C33: a step in which a receive thread moves or a callback is made leaves
\* both tables, the AUTOINCREMENT counter and the consumer's history as they
\* were and changes the queue only by putting the events of its callbacks at
\* its end; and every step that changes a table is a step of the consumer on
\* the main thread, which takes the item at the head of the queue, a message
\* or a grid event, while no receive thread moves.
ListenerOnlyEnqueues ==
  [][/\ (pc' # pc \/ emitted' # emitted) =>
          /\ storeVars' = storeVars
          /\ applied' = applied
          /\ msg_queue' =
               msg_queue \o [i \in DOMAIN NewEvents |-> NewEvents[i].event]
     /\ storeVars' # storeVars =>
          /\ mainpc \in {"idle", "draining"} /\ mainpc' = "draining"
          /\ msg_queue # <<>>
          /\ Head(msg_queue).type \in {"message", "grid"}
          /\ msg_queue' = Tail(msg_queue)
          /\ applied' = Append(applied, Head(msg_queue))
          /\ pc' = pc /\ emitted' = emitted
  ]_vars

\* the record of a notification that receive thread 1 handed to on_message
\* has been stored by the consumer while the thread is in its receive loop
StoredByConsumer ==
  /\ Len(directed_messages) = 1 /\ Len(applied) >= 1
  /\ pc[1] \in {"loop", "recv", "lines"}
  /\ \E i \in DOMAIN emitted :
       /\ emitted[i].thread = 1 /\ emitted[i].event.type = "message"
       /\ \E j \in DOMAIN applied : applied[j] = emitted[i].event

\* the receive threads that have not returned from _run
AliveThreads == {t \in DOMAIN pc : IsAlive(t)}

\* C34: whatever calls of start() and stop() the caller has made, at most
\* one receive thread is alive.
OneThreadAlive == Cardinality(AliveThreads) <= 1

\* the run the last start() created has not reached its own exit path:
\* it has neither failed to connect nor left its receive loop
CurrentRunGoesOn ==
  /\ thread # 0
  /\ pc[thread] \in {"connect", "connecting", "connected", "send", "loop",
                     "recv", "lines"}

\* a step of a receive thread other than the one of the last start()
EarlierThreadStep ==
  \E t \in DOMAIN pc : t # thread /\ pc'[t] # pc[t]

\* C35: once start() has begun a new run, no step of an earlier run's
\* thread clears the running flag or closes the socket the new run made.
EarlierRunLeavesLaterAlone ==
  [][(EarlierThreadStep /\ CurrentRunGoesOn /\ last.op = "start") =>
       /\ running' = running
       /\ \A s \in DOMAIN sockets :
            (sockets[s].owner = thread /\ sockets[s].state # "closed")
               => sockets'[s].state # "closed"
  ]_vars

\* the error events a receive thread emits: for a failed connect (line 81)
\* and for a failed read (line 194)
RunErrors == {ErrorEvent("Connection failed"), ErrorEvent("Connection error")}

\* C36: in every step in which the consumer takes an error event of a
\* receive thread off the queue, the client's running flag is False.
ErrorSeenWhenStopped ==
  [][(applied' # applied /\ Last(applied') \in RunErrors) => ~running]_vars

\* two averages, each kept as sum and number, are the same value
SameAverage(a, b) ==
  IF a.n = 0 \/ b.n = 0 THEN a.n = b.n ELSE a.sum * b.n = b.sum * a.n

\* C37: a record whose report is absent takes no part in the aggregates:
\* every maximum and minimum get_grids_with_snr_stats returns, and the
\* average and the maximum lookup_by_grid returns, are those of the reports
\* the callsign's records carry, and are null when no record carries one.
AbsentReportsLeftOut ==
  /\ StatsReturned =>
       \A i \in DOMAIN fn_out.value :
          \E s \in {fn_out.value[i]}, rows \in {RecordsOf(fn_out.value[i].callsign)} :
             /\ s.max_my_snr = SqlMax(ReportsIn(rows, "my_snr_of_them"))
             /\ s.min_my_snr = SqlMin(ReportsIn(rows, "my_snr_of_them"))
             /\ s.max_their_snr = SqlMax(ReportsIn(rows, "their_snr_of_me"))
             /\ s.min_their_snr = SqlMin(ReportsIn(rows, "their_snr_of_me"))
  /\ LookupReturned =>
       \A i \in DOMAIN fn_out.value :
          \E e \in {fn_out.value[i]}, rows \in {RecordsOf(fn_out.value[i].callsign)} :
             /\ SameAverage(e.avg_their_snr, AverageTheirSnr(e.callsign))
             /\ e.max_their_snr = SqlMax(ReportsIn(rows, "their_snr_of_me"))

GridEventsCarryBoth ==
  \A i \in DOMAIN emitted :
     emitted[i].event.type = "grid" =>
        /\ emitted[i].event.data[1] # <<>>
        /\ Strip(emitted[i].event.data[2]) # <<>>

=============================================================================
